---- MODULE Spec2Model ----
(***************************************************************************)
(* Model of the logger package of Pixie-sh/logger-go: the Base Logger      *)
(* (logger), the Scoped Logger (innerLogger), the JSON renderer            *)
(* (DefaultJSONParser) and the level-gated emission pipeline.              *)
(*                                                                         *)
(* Go values are modelled as tagged records [t |-> <dynamic type>, ...].   *)
(* Go maps are reference types: the FieldSets live in a heap (maps) and a  *)
(* Scoped Logger holds an index into it.                                   *)
(***************************************************************************)
EXTENDS Integers, Sequences, FiniteSets, TLC

VARIABLES
    base,    \* heap of *logger objects (Base Loggers)
    inner,   \* heap of *innerLogger objects (Scoped Loggers)
    maps,    \* heap of map[string]any objects (FieldSet storage)
    sink,    \* what the io.Writer shared by the loggers has received, one item per write call
    ret,     \* the most recent call and its outcome, as its caller observes it
    nops,    \* number of calls made so far
    hist,    \* history variable: per Scoped Logger, what its own calls amount to
    pc,      \* concurrent callers: where each execution unit stands in its call
    cur,     \* concurrent callers: the call each execution unit is in
    mu,      \* concurrent callers: the sync.RWMutex of the shared Scoped Logger
    gh,      \* history variable of the concurrent callers
    Logger,  \* the package-level variable Logger of singleton.go
    mocks,   \* heap of *MockInterface objects: the calls each has received
    environ, \* the environment of the process: variable name -> value
    factory  \* the Factory the program holds: its createMap

vars == <<base, inner, maps, sink, ret, nops, hist, pc, cur, mu, gh, Logger, mocks,
          environ, factory>>
concVars == <<pc, cur, mu, gh>>
facadeVars == <<Logger, mocks, environ, factory>>

-----------------------------------------------------------------------------
(* Bounds of the model *)

MaxOps == 3
MaxInner == 2
MaxBase == 2
NThreads == 2
MaxCalls == 3

-----------------------------------------------------------------------------
(* interface.go: LogLevelEnum *)

ERROR == 0
WARN == 1
LOG == 2
DEBUG == 3

Levels == {ERROR, WARN, LOG, DEBUG}

LevelString(l) ==
    CASE l = ERROR -> "ERROR"
      [] l = WARN -> "WARN"
      [] l = LOG -> "LOG"
      [] l = DEBUG -> "DEBUG"
      [] OTHER -> "UNKNOWN"

-----------------------------------------------------------------------------
(* Go values (the `any` a field can hold) *)

Str(s) == [t |-> "string", s |-> s]
NilValue == [t |-> "nil"]
ErrorValue(name) == [t |-> "error", s |-> name]
ChanValue == [t |-> "chan"]
CallerPtr(path) == [t |-> "*caller.Caller", s |-> path]
Object(m) == [t |-> "object", m |-> m]

\* The error types the repository's tests log, by type name:
\*   Error()  - the error string
\*   unwrap   - "none": no Unwrap method; "nil": Unwrap returns nil;
\*              otherwise the name of the error Unwrap returns
\*   type     - reflect.TypeOf(err).String()
\*   exported - the exported struct fields reflection finds
ErrorTypes ==
    [ errorString |->
        [msg |-> "inner wrapped error", unwrap |-> "none",
         type |-> "*errors.errorString", exported |-> << >>],
      errorStruct |->
        [msg |-> "THIS IS WRONG", unwrap |-> "none",
         type |-> "logger.errorStruct",
         exported |-> [Msg |-> Str("UserID is wrong"), Field |-> Str("User.ID")]],
      wrapper |->
        [msg |-> "wrapped error", unwrap |-> "errorString",
         type |-> "*logger.wrapper", exported |-> << >>],
      wrapperNestedError |->
        [msg |-> "wrapperNestedError", unwrap |-> "wrapper",
         type |-> "*logger.wrapperNestedError", exported |-> << >>],
      nilWrapperNestedError |->
        [msg |-> "nilWrapperNestedError", unwrap |-> "nil",
         type |-> "*logger.nilWrapperNestedError", exported |-> << >>] ]

\* The loop of DefaultJSONParser that follows Unwrap until the error has no
\* Unwrap method or Unwrap returns nil; "nil" when it ended on a nil error.
RECURSIVE UnwrapChain(_)
UnwrapChain(name) ==
    IF ErrorTypes[name].unwrap = "none" THEN name
    ELSE IF ErrorTypes[name].unwrap = "nil" THEN "nil"
    ELSE UnwrapChain(ErrorTypes[name].unwrap)

\* Merge of two Go maps: the entries of over win.
Put(m, over) == [k \in DOMAIN m \cup DOMAIN over |->
                    IF k \in DOMAIN over THEN over[k] ELSE m[k]]

EmptyMap == << >>

-----------------------------------------------------------------------------
(* context.Context values: nil, or the values a context holds by key *)

NilCtx == [nil |-> TRUE, vals |-> EmptyMap]
Background == [nil |-> FALSE, vals |-> EmptyMap]
CtxA == [nil |-> FALSE,
         vals |-> [requestID |-> Str("initial-request-id"), session |-> Str("s-1")]]
CtxB == [nil |-> FALSE, vals |-> [userID |-> Str("new-user-id")]]
\* context.WithValue(..., "requestID", nil): a key held with the value nil
CtxC == [nil |-> FALSE,
         vals |-> [requestID |-> NilValue, userID |-> Str("new-user-id"),
                   session |-> Str("s-1")]]

Contexts == {NilCtx, CtxA, CtxB}

\* ctx.Value(key): nil when the context does not hold the key
CtxValue(ctx, key) == IF key \in DOMAIN ctx.vals THEN ctx.vals[key] ELSE NilValue

ExpectedCtxFields == <<"requestID", "userID">>

\* ctxLog that yields no object when the context holds none of the expected fields.
ctxLogOmitsEmpty(expectedCtxFields, ctx) ==
    IF ctx.nil \/ \A n \in 1..Len(expectedCtxFields) :
                     CtxValue(ctx, expectedCtxFields[n]) = NilValue
    THEN NilValue
    ELSE LET present == {n \in 1..Len(expectedCtxFields) :
                            CtxValue(ctx, expectedCtxFields[n]) # NilValue}
             keys == {expectedCtxFields[n] : n \in present}
         IN Object([k \in keys |-> CtxValue(ctx, k)])

\* ctxLog that copies every value the context holds, expected or not.
ctxLogAllKeys(expectedCtxFields, ctx) ==
    IF ctx.nil THEN NilValue
    ELSE Object([k \in {x \in DOMAIN ctx.vals : ctx.vals[x] # NilValue}
                    |-> ctx.vals[k]])

\* innerLogger.ctxLog
ctxLog(expectedCtxFields, ctx) ==
    IF ctx.nil THEN NilValue
    ELSE LET present == {n \in 1..Len(expectedCtxFields) :
                            CtxValue(ctx, expectedCtxFields[n]) # NilValue}
             keys == {expectedCtxFields[n] : n \in present}
         IN Object([k \in keys |-> CtxValue(ctx, k)])

-----------------------------------------------------------------------------
(* The JSON renderer *)

Timestamp == Str("<time.Now RFC3339>")

\* The case analysis of DefaultJSONParser on one field value.
\* Result: [panic |-> BOOLEAN, val |-> the logEntry value].
RenderField(v) ==
    IF v = NilValue THEN [panic |-> FALSE, val |-> Str("nil")]
    ELSE IF v.t = "error" THEN
        LET errorInfo == [k \in {"error.string"} |-> Str(ErrorTypes[v.s].msg)]
            innerErr == UnwrapChain(v.s)
        IN  IF innerErr = "nil"
            THEN \* reflect.TypeOf(nil) is nil: calling String() on it panics
                 [panic |-> TRUE, val |-> NilValue]
            ELSE IF ErrorTypes[innerErr].type # "*errors.errorString"
            THEN [panic |-> FALSE,
                  val |-> Object(Put(errorInfo, ErrorTypes[innerErr].exported))]
            ELSE [panic |-> FALSE, val |-> Object(errorInfo)]
    ELSE [panic |-> FALSE, val |-> v]

\* DefaultJSONParser(level, app, scope, expandedMsg, logUID, ctxLog, fields);
\* fields is NilValue for a nil map.
\* Result: [panic |-> BOOLEAN, entry |-> logEntry].
DefaultJSONParser(level, app, scope, expandedMsg, logUID, ctx, fields) ==
    LET fs == IF fields = NilValue THEN EmptyMap ELSE fields
        fromFields == [k \in DOMAIN fs |-> RenderField(fs[k]).val]
        fixed == [timestamp |-> Timestamp,
                  level |-> Str(LevelString(level)),
                  app |-> Str(app),
                  scope |-> Str(scope),
                  message |-> Str(expandedMsg)]
        uid == IF logUID # "" THEN [uid |-> Str(logUID)] ELSE EmptyMap
        ctxPart == IF ctx # NilValue THEN [ctx |-> ctx] ELSE EmptyMap
    IN  [panic |-> \E k \in DOMAIN fs : RenderField(fs[k]).panic,
         entry |-> Put(Put(Put(fromFields, fixed), uid), ctxPart)]

\* The parser a logger holds; log falls back to DefaultJSONParser for nil.
ApplyParser(parser, level, app, scope, msg, uid, ctx, fields) ==
    DefaultJSONParser(level, app, scope, msg, uid, ctx, fields)

\* json.Marshal of one value: a channel has no JSON form; a *caller.Caller is
\* a struct whose only exported field is Path (omitempty).
RECURSIVE ToJSON(_)
ToJSON(v) ==
    CASE v.t = "*caller.Caller" ->
            Object(IF v.s = "" THEN EmptyMap ELSE [Path |-> Str(v.s)])
      [] v.t = "object" -> Object([k \in DOMAIN v.m |-> ToJSON(v.m[k])])
      [] OTHER -> v

RECURSIVE Marshalable(_)
Marshalable(v) ==
    CASE v.t = "chan" -> FALSE
      [] v.t = "object" -> \A k \in DOMAIN v.m : Marshalable(v.m[k])
      [] OTHER -> TRUE

\* json.Marshal(logEntry): [err |-> BOOLEAN, obj |-> the JSON object]
Marshal(logEntry) ==
    IF \A k \in DOMAIN logEntry : Marshalable(logEntry[k])
    THEN [err |-> FALSE, obj |-> [k \in DOMAIN logEntry |-> ToJSON(logEntry[k])]]
    ELSE [err |-> TRUE, obj |-> EmptyMap]

\* What fmt.Sprintf appends for the arguments no verb of the format consumed
RECURSIVE ExtraList(_)
ExtraList(args) ==
    IF Len(args) = 0 THEN ""
    ELSE "string=" \o Head(args)
            \o (IF Len(args) = 1 THEN "" ELSE ", " \o ExtraList(Tail(args)))

Extra(args) == IF Len(args) = 0 THEN "" ELSE "%!(EXTRA " \o ExtraList(args) \o ")"

\* fmt.Sprintf(format, args...) with string arguments, for the formats the
\* callers use: one with the verb %s, one that ends in a lone %, and the
\* formats without any verb.
FmtSprintf(format, args) ==
    CASE format = "hello %s" ->
            IF Len(args) = 0 THEN "hello %!s(MISSING)"
            ELSE "hello " \o Head(args) \o Extra(Tail(args))
      [] format = "100%" -> "100%!(NOVERB)" \o Extra(args)
      [] OTHER -> format \o Extra(args)

\* log that hands every format to fmt.Sprintf, arguments or not.
SprintfAlways(format, args) == FmtSprintf(format, args)

\* msg = format; if len(args) > 0 { msg = fmt.Sprintf(format, args...) }
Sprintf(format, args) ==
    IF Len(args) = 0 THEN format ELSE FmtSprintf(format, args)

\* What one write call on the sink received:
\*   json     - fmt.Fprintln(writer, string(jsonLog)): the record and "\n"
\*   fallback - fmt.Fprintf(writer, "error marshaling log: %v; %+v", err, logEntry)
JSONLine(obj) == [kind |-> "json", entry |-> obj, nl |-> TRUE]
FallbackLine(logEntry) == [kind |-> "fallback", entry |-> logEntry, nl |-> FALSE]

\* A tail that gives up on a record json.Marshal rejects and writes nothing.
RenderAndWriteDropsOnError(w, parser, level, app, scope, msg, uid, ctx, fields) ==
    LET r == ApplyParser(parser, level, app, scope, msg, uid, ctx, fields)
        j == Marshal(r.entry)
    IN  IF r.panic THEN [outcome |-> "panic", sink |-> w]
        ELSE IF j.err THEN [outcome |-> "fallback", sink |-> w]
        ELSE [outcome |-> "written", sink |-> Append(w, JSONLine(j.obj))]

\* The tail shared by logger.log and innerLogger.log once the gate is passed:
\* render, marshal, write.  Result: [outcome, sink].
RenderAndWrite(w, parser, level, app, scope, msg, uid, ctx, fields) ==
    LET r == ApplyParser(parser, level, app, scope, msg, uid, ctx, fields)
        j == Marshal(r.entry)
    IN  IF r.panic THEN [outcome |-> "panic", sink |-> w]
        ELSE IF j.err THEN [outcome |-> "fallback",
                            sink |-> Append(w, FallbackLine(r.entry))]
        ELSE [outcome |-> "written", sink |-> Append(w, JSONLine(j.obj))]

-----------------------------------------------------------------------------
(* caller: the resolver of the calling function *)

SelfCallerDepth == 1
FnCallerDepth == 2
TwoHopsCallerDepth == 3

\* NewCaller(depth), called with `stack` as the frames below NewCaller's own
\* (innermost last): runtime.Caller(depth) counts NewCaller's frame as 0.
\* A depth beyond the stack yields the zero Caller (empty Path).
NewCaller(stack, depth) ==
    LET frames == Append(stack, "caller.NewCaller")
        at == Len(frames) - depth
    IN  IF at >= 1 THEN CallerPtr(frames[at]) ELSE CallerPtr("")

\* An Upper that asks for the depth of Self.
UpperAtFnDepth(stack) == NewCaller(Append(stack, "caller.Upper"), FnCallerDepth)

\* caller.Upper()
Upper(stack) == NewCaller(Append(stack, "caller.Upper"), TwoHopsCallerDepth)

\* caller.Self()
Self(stack) == NewCaller(Append(stack, "caller.Self"), FnCallerDepth)

\* The functions of the program that call the loggers
Callers == {"main.handler"}

-----------------------------------------------------------------------------
(* Inputs *)

FieldValues == {Str("v1"), NilValue, ErrorValue("nilWrapperNestedError"), ChanValue}
\* The (field, value) pairs handed to With: an ordinary field name with every
\* value, and fields named like the renderer's own keys uid and ctx.
WithArgs == ({"userID"} \X FieldValues)
               \cup {<<"uid", Str("v1")>>, <<"ctx", Str("v1")>>}
UIDs == {"", "TestUID"}
\* The minimum levels the Base Logger is built with: one that suppresses some
\* of the emission methods, and the one that suppresses none.
MinLevels == {WARN, DEBUG}
Messages == { <<"msg", << >> >> }

-----------------------------------------------------------------------------
(* Construction *)

\* NewLogger
NewLogger(writer, app, scope, uid, logLevel, expectedCtxFields) ==
    [App |-> app, Scope |-> scope, UID |-> uid, LogLevel |-> logLevel,
     writer |-> writer, parser |-> "DefaultJSONParser",
     expectedCtxFields |-> expectedCtxFields]

NoCall == [op |-> "none", on |-> "none", id |-> 0, outcome |-> "none"]

\* The emission methods
EmitOps == {"Log", "Error", "Warn", "Debug"}

\* The execution units that share one Scoped Logger
Threads == 1..NThreads
Idle == [op |-> "none"]
\* sync.RWMutex: w is the unit holding the writer side (0: none), from the
\* moment its Lock has announced it; readers are the units holding the reader side.
Unlocked == [w |-> 0, readers |-> {}]
\* An interface value holding a pointer: its dynamic type and the object
\* pointed to, 0 for a nil pointer; NoLogger is the nil interface value.
NoLogger == [t |-> "nil", ptr |-> 0]
LoggerPtr(b) == [t |-> "*logger.logger", ptr |-> b]
MockPtr(n) == [t |-> "*logger.MockInterface", ptr |-> n]
\* The loggers are called directly: the package-level functions are not used
\* Factory{}: the createMap is the nil map
NilMap == [nil |-> TRUE, m |-> << >>]
NoFactory == [createMap |-> NilMap]
NoFacade ==
    Logger = NoLogger /\ mocks = << >> /\ environ = << >> /\ factory = NoFactory

NoThreads ==
    /\ pc = [t \in Threads |-> "idle"]
    /\ cur = [t \in Threads |-> Idle]
    /\ mu = Unlocked
    /\ gh = [latest |-> EmptyMap, quiet |-> EmptyMap, emits |-> 0,
             overlapped |-> FALSE]

Init ==
    /\ \E uid \in UIDs, lvl \in MinLevels :
          base = << NewLogger("buf", "TestApp", "TestScope", uid, lvl,
                              ExpectedCtxFields) >>
    /\ inner = << >>
    /\ maps = << >>
    /\ sink = << >>
    /\ ret = NoCall
    /\ nops = 0
    /\ hist = << >>
    /\ NoThreads
    /\ NoFacade

\* One more call is made, by the only execution unit there is
Step == nops < MaxOps /\ nops' = nops + 1 /\ UNCHANGED concVars
\* ... on a logger itself, which touches neither Logger nor a MockInterface
Budget == Step /\ UNCHANGED facadeVars

\* History of a Scoped Logger at its creation: how it came to be, and the
\* FieldSet and context it started with.
Born(origin, of, fields, ctx) ==
    [origin |-> origin, of |-> of, seed |-> fields, fields |-> fields,
     ctx |-> ctx, prevCtx |-> ctx, added |-> {}, lastWith |-> << >>]

-----------------------------------------------------------------------------
(* Base Logger (logger) *)

\* With that keeps one FieldSet for all the Scoped Loggers it hands out.
BaseWithSharedFields(b, field, value) ==
    /\ Budget
    /\ Len(inner) < MaxInner
    /\ maps' = IF maps = << >> THEN << field :> value >>
               ELSE [maps EXCEPT ![1] = Put(@, field :> value)]
    /\ inner' = Append(inner,
          [logger |-> b, Ctx |-> Background,
           expectedCtxFields |-> base[b].expectedCtxFields,
           parser |-> base[b].parser, fields |-> 1])
    /\ ret' = [op |-> "With", on |-> "base", id |-> b, outcome |-> "ok",
               result |-> Len(inner) + 1]
    /\ hist' = Append(hist, Born("base", b, field :> value, Background))
    /\ UNCHANGED <<base, sink>>

\* logger.With
BaseWith(b, field, value) ==
    /\ Budget
    /\ Len(inner) < MaxInner
    /\ maps' = Append(maps, field :> value)
    /\ inner' = Append(inner,
          [logger |-> b, Ctx |-> Background,
           expectedCtxFields |-> base[b].expectedCtxFields,
           parser |-> base[b].parser, fields |-> Len(maps) + 1])
    /\ ret' = [op |-> "With", on |-> "base", id |-> b, outcome |-> "ok",
               result |-> Len(inner) + 1]
    /\ hist' = Append(hist, Born("base", b, field :> value, Background))
    /\ UNCHANGED <<base, sink>>

\* logger.WithCtx
BaseWithCtx(b, ctx) ==
    /\ Budget
    /\ Len(inner) < MaxInner
    /\ maps' = Append(maps, EmptyMap)
    /\ inner' = Append(inner,
          [logger |-> b, Ctx |-> ctx,
           expectedCtxFields |-> base[b].expectedCtxFields,
           parser |-> base[b].parser, fields |-> Len(maps) + 1])
    /\ ret' = [op |-> "WithCtx", on |-> "base", id |-> b, outcome |-> "ok",
               result |-> Len(inner) + 1]
    /\ hist' = Append(hist, Born("base", b, EmptyMap, ctx))
    /\ UNCHANGED <<base, sink>>

\* Clone that builds the new Base Logger with the zero LogLevel.
BaseCloneZeroLevel(b) ==
    /\ Budget
    /\ Len(base) < MaxBase
    /\ base' = Append(base,
          [App |-> base[b].App, Scope |-> base[b].Scope, UID |-> base[b].UID,
           LogLevel |-> ERROR, writer |-> base[b].writer,
           expectedCtxFields |-> base[b].expectedCtxFields,
           parser |-> base[b].parser])
    /\ ret' = [op |-> "Clone", on |-> "base", id |-> b, outcome |-> "ok",
               result |-> Len(base) + 1]
    /\ UNCHANGED <<inner, maps, sink, hist>>

\* logger.Clone
BaseClone(b) ==
    /\ Budget
    /\ Len(base) < MaxBase
    /\ base' = Append(base,
          [App |-> base[b].App, Scope |-> base[b].Scope, UID |-> base[b].UID,
           LogLevel |-> base[b].LogLevel, writer |-> base[b].writer,
           expectedCtxFields |-> base[b].expectedCtxFields,
           parser |-> base[b].parser])
    /\ ret' = [op |-> "Clone", on |-> "base", id |-> b, outcome |-> "ok",
               result |-> Len(base) + 1]
    /\ UNCHANGED <<inner, maps, sink, hist>>

\* logger.log(level, call, format, args...); the caller.Ptr it is handed is not used.
\* Result: [outcome, sink].
loggerLog(b, level, call, format, args) ==
    IF base[b].LogLevel < level
    THEN [outcome |-> "suppressed", sink |-> sink]
    ELSE RenderAndWrite(sink, base[b].parser, level, base[b].App, base[b].Scope,
                        Sprintf(format, args), base[b].UID, NilValue, NilValue)

\* One emission method of the Base Logger: i.log(<level>, caller.Upper(), format, args...)
BaseEmit(b, op, level, fn, msg) ==
    LET r == loggerLog(b, level, Upper(<<fn, "logger.logger." \o op>>), msg[1], msg[2])
    IN  /\ Budget
        /\ sink' = r.sink
        /\ ret' = [op |-> op, on |-> "base", id |-> b, outcome |-> r.outcome,
                   level |-> level, msg |-> msg, before |-> Len(sink)]
        /\ UNCHANGED <<base, inner, maps, hist>>

\* logger.Log, logger.Error, logger.Warn, logger.Debug
BaseLog(b, fn, msg) == BaseEmit(b, "Log", LOG, fn, msg)
BaseError(b, fn, msg) == BaseEmit(b, "Error", ERROR, fn, msg)
BaseWarn(b, fn, msg) == BaseEmit(b, "Warn", WARN, fn, msg)
BaseDebug(b, fn, msg) == BaseEmit(b, "Debug", DEBUG, fn, msg)

-----------------------------------------------------------------------------
(* Scoped Logger (innerLogger) *)

\* The FieldSet a Scoped Logger refers to
FieldsOf(i) == maps[inner[i].fields]

\* A store that replaces the FieldSet by the one new entry.
StoreFieldAlone(ms, i, field, value) ==
    [ms EXCEPT ![inner[i].fields] = field :> value]

\* i.fields[field] = value, on the heap of maps
StoreField(ms, i, field, value) ==
    [ms EXCEPT ![inner[i].fields] = Put(@, field :> value)]

\* innerLogger.With
InnerWith(i, field, value) ==
    /\ Budget
    /\ maps' = StoreField(maps, i, field, value)
    /\ ret' = [op |-> "With", on |-> "inner", id |-> i, outcome |-> "ok",
               result |-> i]
    /\ hist' = [hist EXCEPT ![i].fields = Put(@, field :> value),
                            ![i].added = @ \cup {field},
                            ![i].lastWith = <<field, value>>]
    /\ UNCHANGED <<base, inner, sink>>

\* WithCtx that layers the new context over the old one instead of replacing it.
InnerWithCtxMerges(i, ctx) ==
    /\ Budget
    /\ inner' = [inner EXCEPT ![i].Ctx =
                    [nil |-> ctx.nil, vals |-> Put(inner[i].Ctx.vals, ctx.vals)]]
    /\ ret' = [op |-> "WithCtx", on |-> "inner", id |-> i, outcome |-> "ok",
               result |-> i]
    /\ hist' = [hist EXCEPT ![i].ctx = ctx, ![i].prevCtx = hist[i].ctx]
    /\ UNCHANGED <<base, maps, sink>>

\* innerLogger.WithCtx
InnerWithCtx(i, ctx) ==
    /\ Budget
    /\ inner' = [inner EXCEPT ![i].Ctx = ctx]
    /\ ret' = [op |-> "WithCtx", on |-> "inner", id |-> i, outcome |-> "ok",
               result |-> i]
    /\ hist' = [hist EXCEPT ![i].ctx = ctx, ![i].prevCtx = hist[i].ctx]
    /\ UNCHANGED <<base, maps, sink>>

\* Clone that copies nothing: the clone refers to the FieldSet of the original.
InnerCloneSharesFields(i) ==
    /\ Budget
    /\ Len(inner) < MaxInner
    /\ maps' = maps
    /\ inner' = Append(inner,
          [logger |-> inner[i].logger, Ctx |-> inner[i].Ctx,
           expectedCtxFields |-> inner[i].expectedCtxFields,
           parser |-> inner[i].parser, fields |-> inner[i].fields])
    /\ ret' = [op |-> "Clone", on |-> "inner", id |-> i, outcome |-> "ok",
               result |-> Len(inner) + 1]
    /\ hist' = Append(hist, Born("clone", i, hist[i].fields, hist[i].ctx))
    /\ UNCHANGED <<base, sink>>

\* innerLogger.Clone
InnerClone(i) ==
    /\ Budget
    /\ Len(inner) < MaxInner
    /\ maps' = Append(maps, [k \in DOMAIN FieldsOf(i) |-> FieldsOf(i)[k]])
    /\ inner' = Append(inner,
          [logger |-> inner[i].logger, Ctx |-> inner[i].Ctx,
           expectedCtxFields |-> inner[i].expectedCtxFields,
           parser |-> inner[i].parser, fields |-> Len(maps) + 1])
    /\ ret' = [op |-> "Clone", on |-> "inner", id |-> i, outcome |-> "ok",
               result |-> Len(inner) + 1]
    /\ hist' = Append(hist, Born("clone", i, hist[i].fields, hist[i].ctx))
    /\ UNCHANGED <<base, sink>>

\* innerLogger.log(level, format, args...), rendering the FieldSet `fields`.
\* Result: [outcome, sink].
innerLog(i, fields, level, format, args) ==
    LET l == base[inner[i].logger]
    IN  IF l.LogLevel < level
        THEN [outcome |-> "suppressed", sink |-> sink]
        ELSE RenderAndWrite(sink, inner[i].parser, level, l.App, l.Scope,
                            Sprintf(format, args), l.UID,
                            ctxLog(inner[i].expectedCtxFields, inner[i].Ctx),
                            fields)

\* An emission method that resolves and stores the caller only once the
\* level gate has let the call through.
InnerEmitGateFirst(i, op, level, fn, msg) ==
    LET call == Upper(<<fn, "logger.innerLogger." \o op>>)
        gated == base[inner[i].logger].LogLevel < level
        stored == IF gated THEN maps ELSE StoreField(maps, i, "caller", call)
        r == innerLog(i, stored[inner[i].fields], level, msg[1], msg[2])
    IN  /\ Budget
        /\ maps' = stored
        /\ sink' = r.sink
        /\ ret' = [op |-> op, on |-> "inner", id |-> i, outcome |-> r.outcome,
                   level |-> level, msg |-> msg, before |-> Len(sink), fn |-> fn]
        /\ hist' = IF gated THEN hist
                   ELSE [hist EXCEPT ![i].fields = Put(@, "caller" :> call)]
        /\ UNCHANGED <<base, inner>>

\* One emission method of the Scoped Logger:
\* i.With("caller", caller.Upper()) followed by i.log(<level>, format, args...)
InnerEmit(i, op, level, fn, msg) ==
    LET call == Upper(<<fn, "logger.innerLogger." \o op>>)
        stored == StoreField(maps, i, "caller", call)
        r == innerLog(i, stored[inner[i].fields], level, msg[1], msg[2])
    IN  /\ Budget
        /\ maps' = stored
        /\ sink' = r.sink
        /\ ret' = [op |-> op, on |-> "inner", id |-> i, outcome |-> r.outcome,
                   level |-> level, msg |-> msg, before |-> Len(sink), fn |-> fn]
        /\ hist' = [hist EXCEPT ![i].fields = Put(@, "caller" :> call)]
        /\ UNCHANGED <<base, inner>>

\* innerLogger.Log, innerLogger.Error, innerLogger.Warn, innerLogger.Debug
InnerLog(i, fn, msg) == InnerEmit(i, "Log", LOG, fn, msg)
InnerError(i, fn, msg) == InnerEmit(i, "Error", ERROR, fn, msg)
InnerWarn(i, fn, msg) == InnerEmit(i, "Warn", WARN, fn, msg)
InnerDebug(i, fn, msg) == InnerEmit(i, "Debug", DEBUG, fn, msg)

-----------------------------------------------------------------------------
(* The sequential specification: every call runs to completion *)

Next ==
    \/ \E b \in DOMAIN base, a \in WithArgs : BaseWith(b, a[1], a[2])
    \/ \E b \in DOMAIN base, c \in Contexts : BaseWithCtx(b, c)
    \/ \E b \in DOMAIN base : BaseClone(b)
    \/ \E b \in DOMAIN base, fn \in Callers, m \in Messages : BaseLog(b, fn, m)
    \/ \E b \in DOMAIN base, fn \in Callers, m \in Messages : BaseError(b, fn, m)
    \/ \E b \in DOMAIN base, fn \in Callers, m \in Messages : BaseWarn(b, fn, m)
    \/ \E b \in DOMAIN base, fn \in Callers, m \in Messages : BaseDebug(b, fn, m)
    \/ \E i \in DOMAIN inner, a \in WithArgs : InnerWith(i, a[1], a[2])
    \/ \E i \in DOMAIN inner, c \in Contexts : InnerWithCtx(i, c)
    \/ \E i \in DOMAIN inner : InnerClone(i)
    \/ \E i \in DOMAIN inner, fn \in Callers, m \in Messages : InnerLog(i, fn, m)
    \/ \E i \in DOMAIN inner, fn \in Callers, m \in Messages : InnerError(i, fn, m)
    \/ \E i \in DOMAIN inner, fn \in Callers, m \in Messages : InnerWarn(i, fn, m)
    \/ \E i \in DOMAIN inner, fn \in Callers, m \in Messages : InnerDebug(i, fn, m)

Spec == Init /\ [][Next]_vars

-----------------------------------------------------------------------------
(* Concurrent callers of one shared Scoped Logger.
   The shared instance is inner[1].  A call advances in the steps at which
   other units can interleave: a step ends where the unit next touches the
   mutex.  Positions:
     Lock, LockWait  i.mu.Lock(): take the writer side, wait for the readers
     store           inside the exclusive section of With / WithCtx
     return          the deferred Unlock has run, With / WithCtx returns
     gate            the level gate of log
     RLock           i.mu.RLock()
     read            inside the shared section of log / Clone
     RUnlock         the read is done, the deferred RUnlock is next        *)

ConcWithArgs == {<<"userID", Str("v1")>>, <<"userID", NilValue>>,
                 <<"userID", ErrorValue("nilWrapperNestedError")>>,
                 <<"uid", Str("v1")>>}
ConcContexts == {CtxA}
ConcLevels == {WARN, DEBUG}

\* The calling function each execution unit runs
ThreadFn(t) == IF t = 1 THEN "main.handler" ELSE "main.worker"

\* baseLogger.With("sharedField", "sharedValue") has returned the shared Scoped
\* Logger before the execution units start.
InitConc ==
    /\ \E lvl \in ConcLevels :
          base = << NewLogger("buf", "TestApp", "TestScope", "TestUID", lvl,
                              ExpectedCtxFields) >>
    /\ inner = << [logger |-> 1, Ctx |-> Background,
                   expectedCtxFields |-> ExpectedCtxFields,
                   parser |-> "DefaultJSONParser", fields |-> 1] >>
    /\ maps = << "sharedField" :> Str("sharedValue") >>
    /\ sink = << >>
    /\ ret = NoCall
    /\ nops = 0
    /\ hist = << >>
    /\ pc = [t \in Threads |-> "idle"]
    /\ cur = [t \in Threads |-> Idle]
    /\ mu = Unlocked
    /\ gh = [latest |-> "sharedField" :> Str("sharedValue"),
             quiet |-> "sharedField" :> Str("sharedValue"),
             emits |-> 0, overlapped |-> FALSE]
    /\ NoFacade

Drop(m, k) == [x \in DOMAIN m \ {k} |-> m[x]]

\* Unit u is inside a With of field k (an emission's own With("caller", ...) included)
InWith(u, k) ==
    /\ pc[u] \in {"Lock", "LockWait", "store", "return"}
    /\ cur[u].op \in EmitOps \cup {"With"}
    /\ cur[u].field = k

\* Unit u is inside an emission that has not rendered yet
BeforeRender(u) ==
    /\ cur[u].op \in EmitOps
    /\ pc[u] \in {"Lock", "LockWait", "store", "gate", "RLock", "read"}

\* History kept when unit t starts call c, a With of field k: the Withs of k
\* in progress are no longer alone, and k is no longer settled for the
\* emissions that have yet to render.
StartWith(t, c, k) ==
    /\ cur' = [u \in Threads |->
                 IF u = t
                 THEN [c EXCEPT !.alone = \A x \in Threads \ {t} : ~InWith(x, k)]
                 ELSE LET c1 == IF InWith(u, k)
                                THEN [cur[u] EXCEPT !.alone = FALSE] ELSE cur[u]
                      IN  IF BeforeRender(u)
                          THEN [c1 EXCEPT !.quiet = Drop(@, k)] ELSE c1]
    /\ gh' = [gh EXCEPT !.quiet = Drop(@, k)]

\* A unit starts one more call
Begin(t) == pc[t] = "idle" /\ nops < MaxCalls /\ nops' = nops + 1

\* innerLogger.With is called
CallWith(t, field, value) ==
    /\ Begin(t)
    /\ StartWith(t, [op |-> "With", field |-> field, value |-> value,
                     alone |-> TRUE], field)
    /\ pc' = [pc EXCEPT ![t] = "Lock"]
    /\ UNCHANGED <<facadeVars, base, inner, maps, sink, ret, hist, mu>>

\* innerLogger.WithCtx is called
CallWithCtx(t, ctx) ==
    /\ Begin(t)
    /\ cur' = [cur EXCEPT ![t] = [op |-> "WithCtx", ctx |-> ctx]]
    /\ pc' = [pc EXCEPT ![t] = "Lock"]
    /\ UNCHANGED <<facadeVars, base, inner, maps, sink, ret, hist, mu, gh>>

\* innerLogger.Clone is called
CallClone(t) ==
    /\ Begin(t)
    /\ cur' = [cur EXCEPT ![t] = [op |-> "Clone"]]
    /\ pc' = [pc EXCEPT ![t] = "RLock"]
    /\ UNCHANGED <<facadeVars, base, inner, maps, sink, ret, hist, mu, gh>>

\* An emission method is called: it starts with i.With("caller", caller.Upper()).
\* latest and quiet record what the Withs that have returned so far amount to.
CallEmit(t, op, level) ==
    /\ Begin(t)
    /\ StartWith(t, [op |-> op, level |-> level, field |-> "caller",
                     value |-> Upper(<<ThreadFn(t), "logger.innerLogger." \o op>>),
                     alone |-> TRUE, latest |-> gh.latest, quiet |-> gh.quiet,
                     outcome |-> "none", line |-> 0], "caller")
    /\ pc' = [pc EXCEPT ![t] = "Lock"]
    /\ UNCHANGED <<facadeVars, base, inner, maps, sink, ret, hist, mu>>

\* innerLogger.Log is called
CallLog(t) == CallEmit(t, "Log", LOG)

\* i.mu.Lock(), first half: the writer side is taken, new readers are held off
Lock(t) ==
    /\ pc[t] = "Lock"
    /\ mu.w = 0
    /\ mu' = [mu EXCEPT !.w = t]
    /\ pc' = [pc EXCEPT ![t] = "LockWait"]
    /\ UNCHANGED <<facadeVars, base, inner, maps, sink, ret, nops, hist, cur, gh>>

\* Lock that does not wait for the readers to leave.
LockWaitIgnoresReaders(t) ==
    /\ pc[t] = "LockWait"
    /\ pc' = [pc EXCEPT ![t] = "store"]
    /\ UNCHANGED <<facadeVars, base, inner, maps, sink, ret, nops, hist, cur, mu, gh>>

\* i.mu.Lock(), second half: wait until the readers inside have left
LockWait(t) ==
    /\ pc[t] = "LockWait"
    /\ mu.readers = {}
    /\ pc' = [pc EXCEPT ![t] = "store"]
    /\ UNCHANGED <<facadeVars, base, inner, maps, sink, ret, nops, hist, cur, mu, gh>>

\* With that works on a copy of the FieldSet: the shared one keeps its entries.
StoreUnlockOnCopy(t) ==
    /\ pc[t] = "store"
    /\ mu' = [mu EXCEPT !.w = 0]
    /\ inner' = IF cur[t].op = "WithCtx"
                THEN [inner EXCEPT ![1].Ctx = cur[t].ctx] ELSE inner
    /\ maps' = maps
    /\ pc' = [pc EXCEPT ![t] = IF cur[t].op \in EmitOps THEN "gate" ELSE "return"]
    /\ UNCHANGED <<facadeVars, base, sink, ret, nops, hist, cur, gh>>

\* The exclusive section of With / WithCtx and the deferred i.mu.Unlock()
StoreUnlock(t) ==
    /\ pc[t] = "store"
    /\ mu' = [mu EXCEPT !.w = 0]
    /\ inner' = IF cur[t].op = "WithCtx"
                THEN [inner EXCEPT ![1].Ctx = cur[t].ctx] ELSE inner
    /\ maps' = IF cur[t].op = "WithCtx" THEN maps
               ELSE StoreField(maps, 1, cur[t].field, cur[t].value)
    /\ pc' = [pc EXCEPT ![t] = IF cur[t].op \in EmitOps THEN "gate" ELSE "return"]
    /\ UNCHANGED <<facadeVars, base, sink, ret, nops, hist, cur, gh>>

\* With / WithCtx returns to its caller
Return(t) ==
    /\ pc[t] = "return"
    /\ gh' = IF cur[t].op = "With"
             THEN [gh EXCEPT
                     !.latest = Put(@, cur[t].field :> cur[t].value),
                     !.quiet = IF cur[t].alone
                               THEN Put(@, cur[t].field :> cur[t].value) ELSE @]
             ELSE gh
    /\ cur' = [cur EXCEPT ![t] = Idle]
    /\ pc' = [pc EXCEPT ![t] = "idle"]
    /\ UNCHANGED <<facadeVars, base, inner, maps, sink, ret, nops, hist, mu>>

\* log: if i.LogLevel < level { return }
Gate(t) ==
    /\ pc[t] = "gate"
    /\ IF base[inner[1].logger].LogLevel < cur[t].level
       THEN /\ pc' = [pc EXCEPT ![t] = "idle"]
            /\ cur' = [cur EXCEPT ![t] = Idle]
            /\ gh' = [gh EXCEPT !.emits = @ + 1]
       ELSE /\ pc' = [pc EXCEPT ![t] = "RLock"]
            /\ UNCHANGED <<cur, gh>>
    /\ UNCHANGED <<facadeVars, base, inner, maps, sink, ret, nops, hist, mu>>

\* An RLock that enters while a writer holds the lock.
RLockIgnoresWriter(t) ==
    /\ pc[t] = "RLock"
    /\ mu' = [mu EXCEPT !.readers = @ \cup {t}]
    /\ gh' = [gh EXCEPT !.overlapped = @ \/ mu.readers # {}]
    /\ pc' = [pc EXCEPT ![t] = "read"]
    /\ UNCHANGED <<facadeVars, base, inner, maps, sink, ret, nops, hist, cur>>

\* i.mu.RLock(): held off while a writer holds or awaits the lock
RLock(t) ==
    /\ pc[t] = "RLock"
    /\ mu.w = 0
    /\ mu' = [mu EXCEPT !.readers = @ \cup {t}]
    /\ gh' = [gh EXCEPT !.overlapped = @ \/ mu.readers # {}]
    /\ pc' = [pc EXCEPT ![t] = "read"]
    /\ UNCHANGED <<facadeVars, base, inner, maps, sink, ret, nops, hist, cur>>

\* A log whose RUnlock is not deferred: a panic of the renderer leaves the
\* read lock held
RenderUnlocksInline(t) ==
    /\ pc[t] = "read"
    /\ cur[t].op \in EmitOps
    /\ LET r == innerLog(1, FieldsOf(1), cur[t].level, "msg", << >>)
       IN  /\ sink' = r.sink
           /\ cur' = [cur EXCEPT ![t] = IF r.outcome = "panic" THEN Idle
                                        ELSE [@ EXCEPT !.outcome = r.outcome,
                                                       !.line = Len(r.sink)]]
           /\ pc' = [pc EXCEPT ![t] = IF r.outcome = "panic" THEN "idle"
                                      ELSE "RUnlock"]
    /\ UNCHANGED <<facadeVars, base, inner, maps, ret, nops, hist, mu, gh>>

\* The shared section of log: render, marshal, write (one write call on the
\* sink).  A panic of the renderer leaves the sink alone and unwinds through
\* the deferred RUnlock to the caller, which is taken to recover.
Render(t) ==
    /\ pc[t] = "read"
    /\ cur[t].op \in EmitOps
    /\ LET r == innerLog(1, FieldsOf(1), cur[t].level, "msg", << >>)
       IN  /\ sink' = r.sink
           /\ cur' = [cur EXCEPT ![t].outcome = r.outcome,
                                 ![t].line = Len(r.sink)]
    /\ pc' = [pc EXCEPT ![t] = "RUnlock"]
    /\ UNCHANGED <<facadeVars, base, inner, maps, ret, nops, hist, mu, gh>>

\* The shared section of Clone: copy the fields, build the new innerLogger
Copy(t) ==
    /\ pc[t] = "read"
    /\ cur[t].op = "Clone"
    /\ maps' = Append(maps, [k \in DOMAIN FieldsOf(1) |-> FieldsOf(1)[k]])
    /\ inner' = Append(inner,
          [logger |-> inner[1].logger, Ctx |-> inner[1].Ctx,
           expectedCtxFields |-> inner[1].expectedCtxFields,
           parser |-> inner[1].parser, fields |-> Len(maps) + 1])
    /\ pc' = [pc EXCEPT ![t] = "RUnlock"]
    /\ UNCHANGED <<facadeVars, base, sink, ret, nops, hist, cur, mu, gh>>

\* The deferred i.mu.RUnlock(); log / Clone returns to its caller
RUnlock(t) ==
    /\ pc[t] = "RUnlock"
    /\ mu' = [mu EXCEPT !.readers = @ \ {t}]
    /\ gh' = IF cur[t].op \in EmitOps THEN [gh EXCEPT !.emits = @ + 1] ELSE gh
    /\ cur' = [cur EXCEPT ![t] = Idle]
    /\ pc' = [pc EXCEPT ![t] = "idle"]
    /\ UNCHANGED <<facadeVars, base, inner, maps, sink, ret, nops, hist>>

NextConc ==
    \/ \E t \in Threads, a \in ConcWithArgs : CallWith(t, a[1], a[2])
    \/ \E t \in Threads, c \in ConcContexts : CallWithCtx(t, c)
    \/ \E t \in Threads : CallClone(t)
    \/ \E t \in Threads : CallLog(t)
    \/ \E t \in Threads : Lock(t)
    \/ \E t \in Threads : LockWait(t)
    \/ \E t \in Threads : StoreUnlock(t)
    \/ \E t \in Threads : Return(t)
    \/ \E t \in Threads : Gate(t)
    \/ \E t \in Threads : RLock(t)
    \/ \E t \in Threads : Render(t)
    \/ \E t \in Threads : Copy(t)
    \/ \E t \in Threads : RUnlock(t)

SpecConc == InitConc /\ [][NextConc]_vars

\* The steps of unit t inside a call it has started
Advance(t) ==
    \/ Lock(t) \/ LockWait(t) \/ StoreUnlock(t) \/ Return(t) \/ Gate(t)
    \/ RLock(t) \/ Render(t) \/ Copy(t) \/ RUnlock(t)

\* The values given to With by the callers whose calls are followed to their
\* end: one that json.Marshal rejects and one the renderer panics on
LiveWithArgs == {<<"userID", ChanValue>>,
                 <<"userID", ErrorValue("nilWrapperNestedError")>>}

NextLive ==
    \/ \E t \in Threads, a \in LiveWithArgs : CallWith(t, a[1], a[2])
    \/ \E t \in Threads, c \in ConcContexts : CallWithCtx(t, c)
    \/ \E t \in Threads : CallClone(t)
    \/ \E t \in Threads : CallLog(t)
    \/ \E t \in Threads : Advance(t)

\* The scheduler runs every execution unit that can take a step, and the
\* write calls on the sink return
SpecLive ==
    InitConc /\ [][NextLive]_vars /\ \A t \in Threads : WF_vars(Advance(t))

-----------------------------------------------------------------------------
(* One emission, over the inputs of the renderer.
   The loggers are those of
       b := NewLogger(buf, "TestApp", "TestScope", uid, lvl, expected)
       s := b.With("err", v)                 or   b.With("err", v).WithCtx(c)
   and one emission method of b or of s is called, with every kind of field
   value, context, list of expected context fields, format and arguments.    *)

\* Every kind of value a field can hold
RenderValues ==
    {Str("v1"), NilValue, ChanValue} \cup {ErrorValue(n) : n \in DOMAIN ErrorTypes}
RenderContexts == {NilCtx, CtxA, CtxB, CtxC}
AllowLists == { <<"requestID", "userID">>, <<"userID">>, << >> }
\* (format, args) of the emission
RenderMessages == { <<"msg", << >> >>, <<"hello %s", <<"w">> >>,
                    <<"100%", << >> >>, <<"msg", <<"w">> >> }

InitRender ==
    /\ \E uid \in UIDs, lvl \in MinLevels, expected \in AllowLists :
          /\ base = << NewLogger("buf", "TestApp", "TestScope", uid, lvl, expected) >>
          /\ \E c \in RenderContexts \cup {Background} :
                /\ inner = << [logger |-> 1, Ctx |-> c,
                               expectedCtxFields |-> expected,
                               parser |-> "DefaultJSONParser", fields |-> 1] >>
                /\ \E v \in RenderValues :
                      /\ maps = << "err" :> v >>
                      /\ hist = << [Born("base", 1, "err" :> v, Background)
                                       EXCEPT !.ctx = c] >>
    /\ sink = << >>
    /\ ret = NoCall
    /\ nops = MaxOps - 1
    /\ NoThreads
    /\ NoFacade

NextRender ==
    \/ \E fn \in Callers, m \in RenderMessages : BaseLog(1, fn, m)
    \/ \E fn \in Callers, m \in RenderMessages : BaseError(1, fn, m)
    \/ \E fn \in Callers, m \in RenderMessages : BaseWarn(1, fn, m)
    \/ \E fn \in Callers, m \in RenderMessages : BaseDebug(1, fn, m)
    \/ \E fn \in Callers, m \in RenderMessages : InnerLog(1, fn, m)
    \/ \E fn \in Callers, m \in RenderMessages : InnerError(1, fn, m)
    \/ \E fn \in Callers, m \in RenderMessages : InnerWarn(1, fn, m)
    \/ \E fn \in Callers, m \in RenderMessages : InnerDebug(1, fn, m)

SpecRender == InitRender /\ [][NextRender]_vars

-----------------------------------------------------------------------------
(* singleton.go: the package-level handle Logger and the package-level
   functions that delegate to it.  init() has assigned a Base Logger that
   writes to os.Stdout; the program (the tests) assigns other values: nil, a
   nil pointer, a *MockInterface that records the calls it receives, or a
   Base Logger again.                                                        *)

MaxMocks == 2

\* A Nil that knows the nil interface value only.
NilInterfaceOnly(i) == i.t = "nil"

\* mapper.Nil: the nil interface value, or a pointer that is nil
\* (every value Logger holds in the model is of kind reflect.Ptr)
Nil(i) == IF i.t = "nil" THEN TRUE ELSE i.ptr = 0

\* must(l) returns, instead of panicking
must(l) == ~Nil(l)

InitError == "logger is not initialized, please call NewLogger() first"
\* The panic of a method that reads a field of its nil pointer receiver
NilDereference == "runtime error: invalid memory address or nil pointer dereference"

\* A function that keeps using the Base Logger assigned by init().
handleOfInit == LoggerPtr(1)

\* The value of the package-level variable, read anew by every function
handle == Logger

\* The function panics with err: nothing is delegated, nothing is written
Panicked(op, args, err) ==
    /\ Step
    /\ ret' = [op |-> op, on |-> "facade", id |-> 0, outcome |-> "panic",
               args |-> args, error |-> err]
    /\ UNCHANGED <<base, inner, maps, sink, hist, Logger, mocks, environ, factory>>

\* A method of MockInterface: it records the call and returns its receiver
MockCall(m, op, args) ==
    /\ Step
    /\ mocks' = [mocks EXCEPT ![m.ptr].calls = Append(@, [op |-> op, args |-> args])]
    /\ ret' = [op |-> op, on |-> "facade", id |-> 0, outcome |-> "ok",
               args |-> args, result |-> m]
    /\ UNCHANGED <<base, inner, maps, sink, hist, Logger, environ, factory>>

\* The body every package-level function has: must(Logger), then the method
\* of the same name on Logger; onLogger is that method of a Base Logger.
Delegate(op, args, onLogger) ==
    IF ~must(handle) THEN Panicked(op, args, InitError)
    ELSE IF handle.ptr = 0 THEN Panicked(op, args, NilDereference)
    ELSE IF handle.t = "*logger.MockInterface" THEN MockCall(handle, op, args)
    ELSE onLogger

\* The package-level functions Clone, WithCtx, With, Log, Error, Warn, Debug
Clone == Delegate("Clone", << >>, BaseClone(handle.ptr))
WithCtx(ctx) == Delegate("WithCtx", <<ctx>>, BaseWithCtx(handle.ptr, ctx))
With(field, value) ==
    Delegate("With", <<field, value>>, BaseWith(handle.ptr, field, value))
Log(format, args) ==
    Delegate("Log", <<format, args>>,
             BaseLog(handle.ptr, "logger.Log", <<format, args>>))
Error(format, args) ==
    Delegate("Error", <<format, args>>,
             BaseError(handle.ptr, "logger.Error", <<format, args>>))
Warn(format, args) ==
    Delegate("Warn", <<format, args>>,
             BaseWarn(handle.ptr, "logger.Warn", <<format, args>>))
Debug(format, args) ==
    Delegate("Debug", <<format, args>>,
             BaseDebug(handle.ptr, "logger.Debug", <<format, args>>))

\* Logger = h
Assign(h) ==
    /\ Step
    /\ Logger' = h
    /\ ret' = [op |-> "Assign", on |-> "facade", id |-> 0, outcome |-> "ok",
               args |-> <<h>>]
    /\ UNCHANGED <<base, inner, maps, sink, hist, mocks, environ, factory>>

\* mockLogger := &MockInterface{}; Logger = mockLogger
AssignNewMock ==
    /\ Step
    /\ Len(mocks) < MaxMocks
    /\ mocks' = Append(mocks, [calls |-> << >>])
    /\ Logger' = MockPtr(Len(mocks) + 1)
    /\ ret' = [op |-> "Assign", on |-> "facade", id |-> 0, outcome |-> "ok",
               args |-> <<MockPtr(Len(mocks) + 1)>>]
    /\ UNCHANGED <<base, inner, maps, sink, hist, environ, factory>>

\* The values the program assigns to Logger: nil, nil pointers, the objects there are
Handles ==
    {NoLogger, MockPtr(0), LoggerPtr(0)}
       \cup {MockPtr(n) : n \in DOMAIN mocks} \cup {LoggerPtr(b) : b \in DOMAIN base}

FacadeWithArgs == {<<"testField", Str("testValue")>>, <<"err", NilValue>>}
FacadeContexts == {NilCtx, CtxA}
FacadeMessages == { <<"msg", << >> >>, <<"hello %s", <<"w">> >> }

\* os.Getenv: the value of the variable, "" when it is not set
Getenv(key) == IF key \in DOMAIN environ THEN environ[key] ELSE ""

EnvLogLevel == Getenv("LOG_LEVEL")
EnvAppName == Getenv("APP_NAME")
EnvAppVersion == Getenv("APP_VERSION")
EnvScope == Getenv("SCOPE")

\* A level switch whose default is DEBUG
levelOfDefaultDebug(name) ==
    CASE name = "WARN" -> WARN
      [] name = "ERROR" -> ERROR
      [] OTHER -> DEBUG

\* The switch of init() on env.EnvLogLevel()
levelOf(name) ==
    CASE name = "DEBUG" -> DEBUG
      [] name = "WARN" -> WARN
      [] name = "ERROR" -> ERROR
      [] OTHER -> LOG

\* The Base Logger that init() of singleton.go constructs;
\* fmt.Sprintf("%s-%s", a, v) is a, "-" and v joined
init ==
    LET scope == IF EnvScope = "" THEN "-" ELSE EnvScope
    IN  NewLogger("os.Stdout",
                  EnvAppName \o "-" \o EnvAppVersion,
                  scope,
                  EnvAppName \o "-" \o EnvAppVersion,
                  levelOf(EnvLogLevel),
                  <<"TraceID">>)

\* init() of singleton.go, with no APP_NAME, APP_VERSION and SCOPE in the
\* environment; LOG_LEVEL selects the minimum level
InitFacade ==
    /\ \E name \in {LevelString(lvl) : lvl \in MinLevels} :
          environ = ("LOG_LEVEL" :> name)
    /\ base = << init >>
    /\ Logger = LoggerPtr(1)
    /\ mocks = << >>
    /\ factory = NoFactory
    /\ inner = << >>
    /\ maps = << >>
    /\ sink = << >>
    /\ ret = NoCall
    /\ nops = 0
    /\ hist = << >>
    /\ NoThreads

NextFacade ==
    \/ AssignNewMock
    \/ \E h \in Handles : Assign(h)
    \/ Clone
    \/ \E c \in FacadeContexts : WithCtx(c)
    \/ \E a \in FacadeWithArgs : With(a[1], a[2])
    \/ \E m \in FacadeMessages : Log(m[1], m[2])
    \/ \E m \in FacadeMessages : Error(m[1], m[2])
    \/ \E m \in FacadeMessages : Warn(m[1], m[2])
    \/ \E m \in FacadeMessages : Debug(m[1], m[2])

SpecFacade == InitFacade /\ [][NextFacade]_vars

\* The environments a process starts in: each variable set or not set
\* (TestLoggerInitialization sets test-app, 1.0.0, test and five level names)
EnvValues ==
    [APP_NAME |-> {"test-app"}, APP_VERSION |-> {"1.0.0"}, SCOPE |-> {"test", ""},
     LOG_LEVEL |-> {"DEBUG", "WARN", "ERROR", "", "UNKNOWN", "LOG", "debug"}]
Environs ==
    UNION { {e \in [keys -> UNION {EnvValues[k] : k \in keys}] :
                \A k \in keys : e[k] \in EnvValues[k]} :
            keys \in SUBSET {"APP_NAME", "APP_VERSION", "SCOPE", "LOG_LEVEL"} }

\* Process start: init() runs in the environment the process was given
InitProcess ==
    /\ environ \in Environs
    /\ base = << init >>
    /\ Logger = LoggerPtr(1)
    /\ mocks = << >>
    /\ factory = NoFactory
    /\ inner = << >>
    /\ maps = << >>
    /\ sink = << >>
    /\ ret = NoCall
    /\ nops = 0
    /\ hist = << >>
    /\ NoThreads

\* The messages TestLoggerInitialization writes through the logger
NextProcess ==
    \/ Debug("debug message", << >>)
    \/ Log("info message", << >>)
    \/ Warn("warning message", << >>)
    \/ Error("error message", << >>)

SpecProcess == InitProcess /\ [][NextProcess]_vars

-----------------------------------------------------------------------------
(* Factory *)

JSONLoggerDriver == "json_logger_driver"
TextLoggerDriver == "text_logger_driver"

\* A map[string]FactoryCreateFn that is not nil
MakeMap(m) == [nil |-> FALSE, m |-> m]

DefaultFactoryConfiguration ==
    [Mapping |-> MakeMap((JSONLoggerDriver :> "createJSONLogger")
                            @@ (TextLoggerDriver :> "createTextLogger"))]

\* Configuration.Values: nil, or a driver configuration with or without Writer
NoValues == [t |-> "nil"]
DriverValues(writer) == [t |-> "struct", Writer |-> writer]

\* mapper.ObjectToStruct(from, &cfg): an error for nil, else the decoded cfg
ObjectToStruct(from) ==
    IF from.t = "nil" THEN [err |-> "from struct must not be nil"]
    ELSE [err |-> "", cfg |-> from]

\* The body createJSONLogger and createTextLogger share, up to the parser
createLogger(generic, parser) ==
    LET r == ObjectToStruct(generic.Values)
    IN  IF r.err # "" THEN [logger |-> NoLogger, err |-> r.err]
        ELSE [logger |->
                [NewLogger(IF r.cfg.Writer = "nil" THEN "os.Stdout" ELSE r.cfg.Writer,
                           generic.App, generic.Scope, generic.UID, generic.LogLevel,
                           Append(generic.ExpectedCtxFields, "TraceID"))
                   EXCEPT !.parser = parser],
              err |-> ""]

createJSONLogger(generic) == createLogger(generic, "DefaultJSONParser")
createTextLogger(generic) == createLogger(generic, "DefaultTextParser")

\* fn(ctx, configuration), for the constructor named fn
CallCreateFn(fn, generic) ==
    IF fn = "createJSONLogger" THEN createJSONLogger(generic)
    ELSE createTextLogger(generic)

\* A lookup that gives the JSON constructor for a name that is not a key.
lookupOrJSON(createMap, driver) ==
    IF driver \in DOMAIN createMap.m
    THEN [fn |-> createMap.m[driver], exist |-> TRUE]
    ELSE [fn |-> "createJSONLogger", exist |-> TRUE]

\* fn, exist := f.createMap[configuration.Driver] (a nil map has no keys)
lookup(createMap, driver) ==
    IF driver \in DOMAIN createMap.m
    THEN [fn |-> createMap.m[driver], exist |-> TRUE]
    ELSE [fn |-> "none", exist |-> FALSE]

\* factory, err := NewFactory(ctx, config)
NewFactory(config) ==
    /\ Step
    /\ factory' = IF config.Mapping.nil THEN NoFactory
                  ELSE [createMap |-> config.Mapping]
    /\ ret' = [op |-> "NewFactory", on |-> "factory", id |-> 0,
               outcome |-> IF config.Mapping.nil THEN "error" ELSE "ok",
               args |-> <<config>>,
               error |-> IF config.Mapping.nil
                         THEN "unable to creater factory, configuration is missing mappings"
                         ELSE ""]
    /\ UNCHANGED <<base, inner, maps, sink, hist, Logger, mocks, environ>>

\* logger, err := factory.Create(ctx, configuration)
Create(configuration) ==
    LET l == lookup(factory.createMap, configuration.Driver)
        r == CallCreateFn(l.fn, configuration)
    IN  /\ Step
        /\ IF ~l.exist
           THEN /\ ret' = [op |-> "Create", on |-> "factory", id |-> 0,
                           outcome |-> "error", args |-> <<configuration>>,
                           called |-> "none", result |-> NoLogger,
                           error |-> "unknown logger driver " \o configuration.Driver
                                        \o ". unable to create"]
                /\ base' = base
           ELSE /\ ret' = [op |-> "Create", on |-> "factory", id |-> 0,
                           outcome |-> IF r.err # "" THEN "error" ELSE "ok",
                           args |-> <<configuration>>,
                           called |-> l.fn,
                           result |-> IF r.err # "" THEN NoLogger
                                      ELSE LoggerPtr(Len(base) + 1),
                           error |-> r.err]
                /\ base' = IF r.err # "" THEN base ELSE Append(base, r.logger)
        /\ UNCHANGED <<inner, maps, sink, hist, facadeVars>>

\* The factory configurations: no mapping, an empty one, the default one,
\* one with the JSON driver alone
FactoryConfigurations ==
    {[Mapping |-> NilMap], [Mapping |-> MakeMap(<< >>)], DefaultFactoryConfiguration,
     [Mapping |-> MakeMap(JSONLoggerDriver :> "createJSONLogger")]}

Configurations ==
    [App : {"App"}, Scope : {"Scope"}, UID : {"uid"}, LogLevel : {LOG},
     Driver : {JSONLoggerDriver, TextLoggerDriver, "unknown_driver"},
     Values : {NoValues, DriverValues("nil"), DriverValues("os.Stdout")},
     ExpectedCtxFields : {<< >>, <<"userID">>}]

\* A program that has made no factory and no logger yet
InitFactory ==
    /\ base = << >>
    /\ inner = << >>
    /\ maps = << >>
    /\ sink = << >>
    /\ ret = NoCall
    /\ nops = 0
    /\ hist = << >>
    /\ NoThreads
    /\ NoFacade

NextFactory ==
    \/ \E config \in FactoryConfigurations : NewFactory(config)
    \/ \E configuration \in Configurations : Create(configuration)

SpecFactory == InitFactory /\ [][NextFactory]_vars

-----------------------------------------------------------------------------
(* A Scoped Logger whose callers name a field caller themselves *)

\* A Scoped Logger made by With, holding userID, a field caller of its
\* caller's, or both
InitScoped ==
    /\ \E lvl \in MinLevels :
          base = << NewLogger("buf", "TestApp", "TestScope", "", lvl,
                              ExpectedCtxFields) >>
    /\ inner = << [logger |-> 1, Ctx |-> Background,
                   expectedCtxFields |-> ExpectedCtxFields,
                   parser |-> "DefaultJSONParser", fields |-> 1] >>
    /\ \E f \in {[userID |-> Str("v1")], [caller |-> Str("mine")],
                  [caller |-> Str("mine"), userID |-> Str("v1")]} :
          /\ maps = << f >>
          /\ hist = << Born("base", 1, f, Background) >>
    /\ sink = << >>
    /\ ret = NoCall
    /\ nops = 0
    /\ NoThreads
    /\ NoFacade

\* The emission methods, called from two functions, and With("caller", ...)
NextScoped ==
    \/ InnerWith(1, "caller", Str("mine"))
    \/ \E fn \in {ThreadFn(t) : t \in Threads}, m \in Messages : InnerLog(1, fn, m)
    \/ \E fn \in {ThreadFn(t) : t \in Threads}, m \in Messages : InnerError(1, fn, m)
    \/ \E fn \in {ThreadFn(t) : t \in Threads}, m \in Messages : InnerWarn(1, fn, m)
    \/ \E fn \in {ThreadFn(t) : t \in Threads}, m \in Messages : InnerDebug(1, fn, m)

SpecScoped == InitScoped /\ [][NextScoped]_vars

\* The call stacks of a goroutine, outermost frame first: the runtime's two
\* frames, main.main and up to two more functions
Stacks ==
    {<<"runtime.goexit", "runtime.main", "main.main">> \o s :
        s \in {<< >>} \cup [1..1 -> {"main.handler", "main.worker"}]
                       \cup [1..2 -> {"main.handler", "main.worker"}]}

\* The function on top of stack calls caller.NewCaller(depth)
CallNewCaller(stack, depth) ==
    /\ Budget
    /\ ret' = [op |-> "NewCaller", on |-> "caller", id |-> 0, outcome |-> "ok",
               args |-> <<stack, depth>>, result |-> NewCaller(stack, depth)]
    /\ UNCHANGED <<base, inner, maps, sink, hist>>

\* The function on top of stack calls caller.Self()
CallSelf(stack) ==
    /\ Budget
    /\ ret' = [op |-> "Self", on |-> "caller", id |-> 0, outcome |-> "ok",
               args |-> <<stack>>, result |-> Self(stack)]
    /\ UNCHANGED <<base, inner, maps, sink, hist>>

\* Calls of the caller package, and of Log on the Scoped Logger
NextCaller ==
    \/ \E stack \in Stacks, depth \in 1..5 : CallNewCaller(stack, depth)
    \/ \E stack \in Stacks : CallSelf(stack)
    \/ \E fn \in {ThreadFn(t) : t \in Threads}, m \in Messages : InnerLog(1, fn, m)

SpecCaller == InitScoped /\ [][NextCaller]_vars

-----------------------------------------------------------------------------
(* The text renderer *)

\* A struct value: its exported fields <<name, value>> in declaration order.
\* A Go map with string keys is an Object.
Struct(f) == [t |-> "struct", f |-> f]

\* The keys the text renderer meets, in ascending order of sort.Strings
TextKeys == <<"M", "a", "b", "requestID", "userID">>
\* The orders in which the runtime may hand out the keys of a map: for the
\* maps written here, of two keys at most, these are all of them
IterationOrders ==
    {TextKeys, [n \in DOMAIN TextKeys |-> TextKeys[Len(TextKeys) + 1 - n]]}

\* for k := range m, v.MapKeys(), val.MapRange(): the keys of m in the order
\* the runtime chose
MapKeys(m, order) == SelectSeq(order, LAMBDA k : k \in DOMAIN m)
\* sort.Strings(keys)
sortStrings(keys) ==
    SelectSeq(TextKeys, LAMBDA k : \E n \in DOMAIN keys : keys[n] = k)

\* The strings a loop appends, one after the other
RECURSIVE Joined(_)
Joined(parts) == IF parts = << >> THEN "" ELSE Head(parts) \o Joined(Tail(parts))

RECURSIVE formatValueForText(_, _)
formatValueForText(value, order) ==
    CASE value.t = "nil" -> "nil"
      [] value.t = "error" -> "error: " \o ErrorTypes[value.s].msg
      [] value.t = "string" -> value.s
      [] value.t = "object" ->
            IF DOMAIN value.m = {} THEN "{}"
            ELSE LET keys == MapKeys(value.m, order)
                 IN  "{\n" \o Joined([n \in DOMAIN keys |->
                          "      " \o keys[n] \o ": "
                             \o formatValueForText(value.m[keys[n]], order) \o "\n"])
                         \o "    }"
      [] value.t = "struct" ->
            "{\n" \o Joined([n \in DOMAIN value.f |->
                      "      " \o value.f[n][1] \o ": "
                         \o formatValueForText(value.f[n][2], order) \o "\n"])
                  \o "    }"

\* flattenAndAppendFields: what it appends to *logLine
RECURSIVE flattenAndAppendFields(_, _, _, _)
flattenAndAppendFields(key, value, prefix, order) ==
    CASE value.t = "struct" ->
            Joined([n \in DOMAIN value.f |->
               LET name == value.f[n][1]
                   fieldValue == value.f[n][2]
               IN  IF fieldValue.t = "struct"
                   THEN flattenAndAppendFields(key \o "." \o name, fieldValue, prefix, order)
                   ELSE "\n  " \o prefix \o "." \o key \o "." \o name \o ": "
                           \o formatValueForText(fieldValue, order)])
      [] value.t = "object" ->
            LET keys == MapKeys(value.m, order)
            IN  Joined([n \in DOMAIN keys |->
                   LET mapValue == value.m[keys[n]]
                   IN  IF mapValue.t \in {"struct", "object"}
                       THEN flattenAndAppendFields(key \o "." \o keys[n], mapValue,
                                                   prefix, order)
                       ELSE "\n  " \o prefix \o "." \o key \o "." \o keys[n] \o ": "
                               \o formatValueForText(mapValue, order)])
      [] OTHER ->
            "\n  " \o prefix \o "." \o key \o ": " \o formatValueForText(value, order)

\* DefaultTextParser of drivers.go; order is the iteration order of the maps
DefaultTextParser(level, app, scope, expandedMsg, logVersion, ctx, fields, order) ==
    LET keys == sortStrings(MapKeys(fields, order))
        ctxKeys == IF ctx = NilValue THEN << >>
                   ELSE sortStrings(MapKeys(ctx.m, order))
    IN  "[<time.Now>][" \o LevelString(level) \o "]$_ " \o expandedMsg
           \o " {" \o scope \o "," \o app \o "," \o logVersion \o "}"
           \o Joined([n \in DOMAIN keys |->
                 LET k == keys[n]
                     v == fields[k]
                 IN  IF v.t = "nil" THEN "\n  Fields." \o k \o ": nil"
                     ELSE IF v.t = "error"
                     THEN "\n  Fields." \o k \o ": \"" \o ErrorTypes[v.s].msg \o "\""
                     ELSE IF v.t \in {"struct", "object"}
                     THEN flattenAndAppendFields(k, v, "Fields", order)
                     ELSE "\n  Fields." \o k \o ": " \o formatValueForText(v, order)])
           \o Joined([n \in DOMAIN ctxKeys |->
                 "\n  Context." \o ctxKeys[n] \o ": "
                    \o formatValueForText(ctx.m[ctxKeys[n]], order)])

\* One emission of the Scoped Logger through the text renderer
TextLog(order) ==
    /\ Budget
    /\ sink' = Append(sink,
          [kind |-> "text", nl |-> TRUE,
           entry |-> DefaultTextParser(LOG, base[1].App, base[1].Scope, "msg",
                        base[1].UID, ctxLog(inner[1].expectedCtxFields, inner[1].Ctx),
                        FieldsOf(1), order)])
    /\ ret' = [op |-> "Log", on |-> "inner", id |-> 1, outcome |-> "written",
               level |-> LOG, msg |-> <<"msg", << >> >>, before |-> Len(sink)]
    /\ UNCHANGED <<base, inner, maps, hist>>

TwoKeys == [a |-> Str("1"), b |-> Str("2")]
TextFieldSets ==
    {EmptyMap,
     [a |-> Str("v1")],
     [a |-> Str("v1"), b |-> NilValue],
     [a |-> Str("v1"), b |-> ErrorValue("errorString")],
     [a |-> Struct(<< <<"a", Str("1")>>, <<"b", Str("2")>> >>)],
     [a |-> Object(TwoKeys)],
     [a |-> Object([a |-> Object(TwoKeys)])],
     [a |-> Struct(<< <<"M", Object(TwoKeys)>> >>)]}
TextContexts ==
    {NilCtx, CtxA, CtxB,
     [nil |-> FALSE, vals |-> [requestID |-> Str("r-1"), userID |-> Str("u-1")]]}

\* A Scoped Logger that renders text, with its FieldSet and context
InitText ==
    /\ base = << [NewLogger("buf", "TestApp", "TestScope", "TestUID", DEBUG,
                            ExpectedCtxFields)
                    EXCEPT !.parser = "DefaultTextParser"] >>
    /\ \E c \in TextContexts, f \in TextFieldSets :
          /\ inner = << [logger |-> 1, Ctx |-> c,
                         expectedCtxFields |-> ExpectedCtxFields,
                         parser |-> "DefaultTextParser", fields |-> 1] >>
          /\ maps = << f >>
          /\ hist = << [Born("base", 1, f, Background) EXCEPT !.ctx = c] >>
    /\ sink = << >>
    /\ ret = NoCall
    /\ nops = 0
    /\ NoThreads
    /\ NoFacade

NextText == \E order \in IterationOrders : TextLog(order)

SpecText == InitText /\ [][NextText]_vars

-----------------------------------------------------------------------------
(* Vocabulary of the properties *)

\* The most recent call was an emission
Emitted == ret.op \in EmitOps
\* ... of Scoped Logger i
EmittedBy(i) == Emitted /\ ret.on = "inner" /\ ret.id = i
\* ... and it wrote a JSON record, the last line of the sink
Wrote == Emitted /\ ret.outcome = "written"
WroteBy(i) == EmittedBy(i) /\ ret.outcome = "written"
LastRecord == sink[Len(sink)].entry

\* The Base Logger behind the most recent call
RetBase == IF ret.on = "inner" THEN base[inner[ret.id].logger] ELSE base[ret.id]

\* The keys the renderer writes by itself into every record
FixedKeys == {"timestamp", "level", "app", "scope", "message"}
\* The keys the renderer writes by itself into the records of Scoped Logger i
RendererKeys(i) ==
    FixedKeys \cup (IF base[inner[i].logger].UID # "" THEN {"uid"} ELSE {})
              \cup (IF inner[i].Ctx.nil THEN {} ELSE {"ctx"})

\* What a record shows of a field value v
Shown(v) == ToJSON(RenderField(v).val)

\* The projection of a context onto the expected context fields
Projection(ctx) ==
    [k \in {ExpectedCtxFields[n] : n \in 1..Len(ExpectedCtxFields)}
            \cap DOMAIN ctx.vals |-> ctx.vals[k]]

-----------------------------------------------------------------------------
(* C1 *)

\* C1, as stated: an emission at level L on a logger of minimum level M
\* appends a record to the sink if and only if L <= M, whatever calls came
\* before it; when L > M the sink is left as it was.
C1_WritesIffLevelPasses ==
    Emitted =>
       /\ (Len(sink) = ret.before + 1) <=> (ret.level <= RetBase.LogLevel)
       /\ (ret.level > RetBase.LogLevel) => (Len(sink) = ret.before)

-----------------------------------------------------------------------------
(* C9, C10 *)

\* C9, as stated: in every record the reserved keys timestamp, level, app,
\* scope, message, uid and ctx carry the value the logger generates, never a
\* field of the same name supplied through With.
C9_ReservedKeysLoggerGenerated ==
    Wrote =>
       /\ LastRecord["timestamp"] = Timestamp
       /\ LastRecord["level"] = Str(LevelString(ret.level))
       /\ LastRecord["app"] = Str(RetBase.App)
       /\ LastRecord["scope"] = Str(RetBase.Scope)
       /\ LastRecord["message"] = Str(Sprintf(ret.msg[1], ret.msg[2]))
       /\ "uid" \in DOMAIN LastRecord => LastRecord["uid"] = Str(RetBase.UID)
       /\ "ctx" \in DOMAIN LastRecord =>
             /\ ret.on = "inner"
             /\ LastRecord["ctx"] = ToJSON(Object(Projection(inner[ret.id].Ctx)))

\* C10, as stated: a record has the key uid if and only if the UID of the
\* logger is not empty, whatever fields were added through With.
C10_UidIffNonEmpty ==
    Wrote => (("uid" \in DOMAIN LastRecord) <=> (RetBase.UID # ""))

-----------------------------------------------------------------------------
(* C2 *)

\* C2: once c is the Clone of s, the two are isolated.  The FieldSet and the
\* context of each are what its own calls made of them (for c: starting from
\* what s had when it was cloned), so no call on one changes the other; a
\* record of s has no key beyond the fields of s and the renderer's own keys,
\* hence none added to c only; a record of c has every field s had at the
\* clone and every field added to c since.
C2_CloneIsolated ==
    \A c \in DOMAIN inner :
       hist[c].origin = "clone" =>
          LET s == hist[c].of
          IN  /\ FieldsOf(s) = hist[s].fields
              /\ inner[s].Ctx = hist[s].ctx
              /\ FieldsOf(c) = hist[c].fields
              /\ inner[c].Ctx = hist[c].ctx
              /\ WroteBy(s) =>
                    DOMAIN LastRecord \subseteq
                       DOMAIN hist[s].fields \cup RendererKeys(s)
              /\ WroteBy(c) =>
                    (DOMAIN hist[c].seed \cup hist[c].added)
                       \subseteq DOMAIN LastRecord

\* A clone that has since been given a field its original does not have
C2_Witness ==
    \E c \in DOMAIN inner :
       /\ hist[c].origin = "clone"
       /\ ret = [op |-> "With", on |-> "inner", id |-> c, outcome |-> "ok",
                 result |-> c]
       /\ DOMAIN hist[c].seed # {}
       /\ FieldsOf(c) # FieldsOf(hist[c].of)
       /\ FieldsOf(hist[c].of) = hist[c].seed

-----------------------------------------------------------------------------
(* C3 *)

\* C3: With and WithCtx of a Base Logger return a new Scoped Logger whose
\* FieldSet storage no other Scoped Logger refers to.  For two Scoped Loggers
\* obtained by separate Base calls, the FieldSet of each is what its own calls
\* made of it, so With on one never changes the other, and a record of one has
\* no key beyond its own fields and the renderer's own keys.
C3_BaseCallsGiveOwnStorage ==
    /\ (ret.on = "base" /\ ret.op \in {"With", "WithCtx"}) =>
          /\ ret.result = Len(inner)
          /\ hist[ret.result].origin = "base"
          /\ \A j \in DOMAIN inner \ {ret.result} :
                inner[j].fields # inner[ret.result].fields
    /\ \A a, b \in DOMAIN inner :
          (a # b /\ hist[a].origin = "base" /\ hist[b].origin = "base") =>
              /\ inner[a].fields # inner[b].fields
              /\ FieldsOf(b) = hist[b].fields
              /\ WroteBy(b) =>
                    DOMAIN LastRecord \subseteq
                       DOMAIN hist[b].fields \cup RendererKeys(b)

\* Two Scoped Loggers of separate Base calls, one of which was then given a
\* field that the other does not have
C3_Witness ==
    \E a, b \in DOMAIN inner :
       /\ a # b /\ hist[a].origin = "base" /\ hist[b].origin = "base"
       /\ ret = [op |-> "With", on |-> "inner", id |-> a, outcome |-> "ok",
                 result |-> a]
       /\ hist[a].added \ DOMAIN FieldsOf(b) # {}
       /\ FieldsOf(b) = hist[b].seed

-----------------------------------------------------------------------------
(* C7 *)

\* The ctx object of a record of Scoped Logger i is the projection of the
\* context most recently given to i
RecordCtxIsOfLastContext ==
    \A i \in DOMAIN inner :
       (WroteBy(i) /\ ~hist[i].ctx.nil) =>
          /\ "ctx" \in DOMAIN LastRecord
          /\ LastRecord["ctx"] = ToJSON(Object(Projection(hist[i].ctx)))

\* C7: WithCtx on a Scoped Logger replaces the context and leaves the FieldSet
\* alone: the call stores exactly its argument and changes no FieldSet, and the
\* ctx object of every later record is the projection onto the expected
\* context fields of the context given last, with nothing of an earlier one.
C7_WithCtxReplaces ==
    [][ /\ \A i \in DOMAIN inner, c \in Contexts :
              (ret'.op = "WithCtx" /\ ret'.on = "inner" /\ InnerWithCtx(i, c)) =>
                 /\ inner'[i].Ctx = c
                 /\ inner'[i].fields = inner[i].fields
                 /\ maps' = maps
        /\ RecordCtxIsOfLastContext' ]_vars

\* A record written after WithCtx(A) and then WithCtx(B)
C7_Witness ==
    \E i \in DOMAIN inner :
       /\ WroteBy(i)
       /\ hist[i].prevCtx = CtxA
       /\ hist[i].ctx = CtxB
       /\ LastRecord["ctx"] = Object([userID |-> Str("new-user-id")])

-----------------------------------------------------------------------------
(* C8 *)

\* With(field, value) on Scoped Logger i returns i itself, sets the one entry
\* and leaves every other entry, every other FieldSet and every context alone
WithFrame(i, field, value) ==
    /\ ret'.result = i
    /\ inner' = inner
    /\ DOMAIN maps' = DOMAIN maps
    /\ DOMAIN maps'[inner[i].fields] = DOMAIN FieldsOf(i) \cup {field}
    /\ maps'[inner[i].fields][field] = value
    /\ \A k \in DOMAIN FieldsOf(i) \ {field} :
          maps'[inner[i].fields][k] = FieldsOf(i)[k]
    /\ \A j \in DOMAIN maps \ {inner[i].fields} : maps'[j] = maps[j]

\* C8, as stated: With on a Scoped Logger mutates in place and returns the same
\* instance, and every holder of the handle sees the new entry in its next
\* emission: an emission that passes the level gate writes a record showing
\* the entry of the most recent With.
C8_WithSeenInNextEmission ==
    [][ /\ \A i \in DOMAIN inner, a \in WithArgs :
              (ret'.op = "With" /\ ret'.on = "inner" /\ InnerWith(i, a[1], a[2]))
                 => WithFrame(i, a[1], a[2])
        /\ \A i \in DOMAIN inner :
              (EmittedBy(i) /\ ret.level <= RetBase.LogLevel
                            /\ hist[i].lastWith # << >>)' =>
                 (/\ Len(sink) = ret.before + 1
                  /\ hist[i].lastWith[1] \in DOMAIN LastRecord
                  /\ LastRecord[hist[i].lastWith[1]]
                        = Shown(hist[i].lastWith[2]))' ]_vars

\* C8, amended: With on a Scoped Logger mutates in place and returns the same
\* instance; every record a later emission on the handle writes shows the
\* entry of the most recent With, unless the field is named like a key the
\* renderer writes itself or like caller, which every emission stores anew.
C8_WithSeenInNextRecord ==
    [][ /\ \A i \in DOMAIN inner, a \in WithArgs :
              (ret'.op = "With" /\ ret'.on = "inner" /\ InnerWith(i, a[1], a[2]))
                 => WithFrame(i, a[1], a[2])
        /\ \A i \in DOMAIN inner :
              (/\ EmittedBy(i) /\ Len(sink) = ret.before + 1
               /\ hist[i].lastWith # << >>
               /\ hist[i].lastWith[1] \notin RendererKeys(i) \cup {"caller"})' =>
                 (/\ hist[i].lastWith[1] \in DOMAIN LastRecord
                  /\ LastRecord[hist[i].lastWith[1]]
                        = Shown(hist[i].lastWith[2]))' ]_vars

\* A record written after With on a Scoped Logger that already had a field
C8_Witness ==
    \E i \in DOMAIN inner :
       /\ WroteBy(i)
       /\ hist[i].lastWith = <<"userID", Str("v1")>>
       /\ DOMAIN hist[i].seed = {"uid"}
       /\ LastRecord["userID"] = Str("v1")

-----------------------------------------------------------------------------
(* C4 *)

\* C4, as stated: when the execution units sharing one Scoped Logger of
\* minimum level DEBUG have finished their With and Log calls, the sink holds
\* as many records as Log calls were made, and every record has the keys app,
\* scope, level, timestamp, message, caller and the field seeded beforehand.
C4_OneRecordPerLog ==
    ((\A t \in Threads : pc[t] = "idle") /\ base[1].LogLevel = DEBUG) =>
       /\ Len(sink) = gh.emits
       /\ \A n \in DOMAIN sink :
             /\ sink[n].kind = "json"
             /\ {"app", "scope", "level", "timestamp", "message", "caller",
                 "sharedField"} \subseteq DOMAIN sink[n].entry

-----------------------------------------------------------------------------
(* C5 *)

\* Unit t has just written the JSON record of its emission
Rendered(t) ==
    pc[t] = "RUnlock" /\ cur[t].op \in EmitOps /\ cur[t].outcome = "written"

\* C5, as stated: if With(k, v) returned before an emission began and no other
\* With(k, _) completed in between, the record the emission writes has k with
\* (the rendering of) v, whatever the other units do meanwhile.  Read in the
\* claim's favour: for the fields k that the renderer does not write itself,
\* and for the emissions that do write a record.
C5_ReturnedWithIsInRecord ==
    \A t \in Threads :
       Rendered(t) =>
          \A k \in DOMAIN cur[t].latest \ RendererKeys(1) :
             /\ k \in DOMAIN sink[cur[t].line].entry
             /\ sink[cur[t].line].entry[k] = Shown(cur[t].latest[k])

\* C5, amended: if With(k, v) returned before an emission began, no other
\* With(k, _) was in progress at any moment from the start of that With to the
\* moment the emission renders, and k is neither a key the renderer writes
\* itself nor caller, then the record the emission writes, if it writes one,
\* has k with the rendering of v.
C5_SettledWithIsInRecord ==
    \A t \in Threads :
       Rendered(t) =>
          \A k \in DOMAIN cur[t].quiet \ (RendererKeys(1) \cup {"caller"}) :
             /\ k \in DOMAIN sink[cur[t].line].entry
             /\ sink[cur[t].line].entry[k] = Shown(cur[t].quiet[k])

\* A record written with a field that a With, called by a unit after the
\* units had started, had settled before the emission began
C5_Witness ==
    \E t \in Threads :
       /\ Rendered(t)
       /\ "userID" \in DOMAIN cur[t].quiet
       /\ sink[cur[t].line].entry["userID"] = Shown(cur[t].quiet["userID"])

-----------------------------------------------------------------------------
(* C6 *)

\* C6: while a With or WithCtx is inside its exclusive section, no other unit
\* is inside the exclusive section of a With or WithCtx or inside the shared
\* section of a render or a Clone; the mutex records exactly the units inside.
\* (That renders and Clones do get inside together is what C6_Witness shows.)
C6_WritersAreAlone ==
    \A t \in Threads :
       /\ pc[t] = "store" =>
             /\ mu.w = t /\ mu.readers = {}
             /\ \A u \in Threads \ {t} : pc[u] \notin {"store", "read", "RUnlock"}
       /\ pc[t] \in {"read", "RUnlock"} => t \in mu.readers

\* A With inside its exclusive section while the other unit waits for the
\* lock, after a render and a Clone have been inside their shared sections
\* at the same time
C6_Witness ==
    \E t \in Threads :
       /\ pc[t] = "store" /\ cur[t].op = "With"
       /\ gh.overlapped
       /\ inner # << inner[1] >>
       /\ sink # << >>

-----------------------------------------------------------------------------
(* C11 *)

\* Scoped Logger i was returned by With of a Base Logger and no WithCtx was
\* called on it since (no WithCtx is ever called with the background context)
NeverGivenContext(i) ==
    /\ hist[i].origin = "base" /\ hist[i].seed # EmptyMap
    /\ hist[i].ctx = Background

\* C11, as stated: a record contains the key ctx only when the emitting logger
\* has a non-nil context; the records of a Base Logger, and those of a Scoped
\* Logger obtained by Base With on which WithCtx was never called, contain no
\* ctx; the records of a logger whose last context call was WithCtx(c) with a
\* non-nil c contain ctx.
C11_NoCtxUntilWithCtx ==
    Wrote =>
       /\ "ctx" \in DOMAIN LastRecord =>
             (ret.on = "inner" /\ ~hist[ret.id].ctx.nil)
       /\ ret.on = "base" => "ctx" \notin DOMAIN LastRecord
       /\ (ret.on = "inner" /\ NeverGivenContext(ret.id)) =>
             "ctx" \notin DOMAIN LastRecord
       /\ (ret.on = "inner" /\ ~NeverGivenContext(ret.id)
                            /\ ~hist[ret.id].ctx.nil) =>
             "ctx" \in DOMAIN LastRecord

\* C11, amended: the records of a Base Logger contain no ctx.  Every record of
\* a Scoped Logger whose context is not nil contains ctx, an object: that
\* includes the Scoped Logger obtained by Base With on which WithCtx was never
\* called, whose context is the background context and whose ctx object is
\* empty.  A record of a Scoped Logger whose context is nil contains ctx only
\* if the FieldSet has a field named ctx.
C11_CtxWheneverContextNonNil ==
    Wrote =>
       /\ ret.on = "base" => "ctx" \notin DOMAIN LastRecord
       /\ (ret.on = "inner" /\ ~hist[ret.id].ctx.nil) =>
             /\ "ctx" \in DOMAIN LastRecord
             /\ LastRecord["ctx"].t = "object"
       /\ (ret.on = "inner" /\ NeverGivenContext(ret.id)) =>
             /\ "ctx" \in DOMAIN LastRecord
             /\ LastRecord["ctx"] = Object(EmptyMap)
       /\ (ret.on = "inner" /\ hist[ret.id].ctx.nil) =>
             ("ctx" \in DOMAIN LastRecord <=> "ctx" \in DOMAIN FieldsOf(ret.id))

\* A record, with an empty ctx object, of a Scoped Logger obtained by Base
\* With on which WithCtx was never called
C11_Witness ==
    \E i \in DOMAIN inner :
       /\ WroteBy(i)
       /\ NeverGivenContext(i)
       /\ "ctx" \notin DOMAIN FieldsOf(i)
       /\ LastRecord["ctx"] = Object(EmptyMap)

-----------------------------------------------------------------------------
(* C12 *)

\* The names in a list of expected context fields
Allowed(expected) == {expected[n] : n \in 1..Len(expected)}

\* C12: for every context c that is not nil and every list E of expected
\* context fields, the ctx object of a record has exactly the keys k of E for
\* which c holds a value that is not nil, each with that value: no key of c
\* outside E appears, and a key of E that c does not hold, or holds with nil,
\* is left out.  (With a nil context the logger derives no ctx object.)
C12_CtxIsAllowedNonNilValues ==
    \A i \in DOMAIN inner :
       (WroteBy(i) /\ ~hist[i].ctx.nil) =>
          LET c == hist[i].ctx.vals
              E == Allowed(base[inner[i].logger].expectedCtxFields)
              obj == LastRecord["ctx"]
          IN  /\ obj.t = "object"
              /\ \A k \in E :
                    IF k \in DOMAIN c /\ c[k] # NilValue
                    THEN k \in DOMAIN obj.m /\ obj.m[k] = c[k]
                    ELSE k \notin DOMAIN obj.m
              /\ \A k \in DOMAIN obj.m : k \in E
              /\ \A k \in DOMAIN c \ E : k \notin DOMAIN obj.m

\* A record of a logger whose context holds an expected key with a value, an
\* expected key with nil and a key that is not expected
C12_Witness ==
    /\ WroteBy(1)
    /\ hist[1].ctx = CtxC
    /\ base[1].expectedCtxFields = <<"requestID", "userID">>
    /\ LastRecord["ctx"] = Object([userID |-> Str("new-user-id")])

-----------------------------------------------------------------------------
(* C13 *)

\* Object obj has key k1 with the string of error e and, when Unwrap of e
\* returns an error, another key with the string of that error
HoldsErrorStrings(obj, e) ==
    \E k1 \in DOMAIN obj :
       /\ obj[k1] = Str(ErrorTypes[e].msg)
       /\ ErrorTypes[e].unwrap \notin {"none", "nil"} =>
             \E k2 \in DOMAIN obj \ {k1} :
                obj[k2] = Str(ErrorTypes[ErrorTypes[e].unwrap].msg)

\* C13, as stated: of a field value v the record shows the string nil when v
\* is nil; when v is an error, an object with the error string of v and, if
\* Unwrap of v returns an error, the string of that error under another key;
\* v itself otherwise.
C13_FieldRendering ==
    WroteBy(1) =>
       LET v == FieldsOf(1)["err"]
           shown == LastRecord["err"]
       IN  IF v = NilValue THEN shown = Str("nil")
           ELSE IF v.t = "error"
                THEN shown.t = "object" /\ HoldsErrorStrings(shown.m, v.s)
                ELSE shown = v

-----------------------------------------------------------------------------
(* C14 *)

\* C14, as stated: rendering never panics.  Whatever error a field holds, one
\* whose Unwrap returns nil included, an emission that passes the level gate
\* returns normally and its record holds the string of the error.
C14_RenderingNeverPanics ==
    /\ Emitted => ret.outcome # "panic"
    /\ (EmittedBy(1) /\ ret.level <= RetBase.LogLevel
                     /\ FieldsOf(1)["err"].t = "error") =>
          /\ ret.outcome = "written"
          /\ LastRecord["err"].t = "object"
          /\ \E k \in DOMAIN LastRecord["err"].m :
                LastRecord["err"].m[k] = Str(ErrorTypes[FieldsOf(1)["err"].s].msg)

-----------------------------------------------------------------------------
(* C15 *)

\* The FieldSet of Scoped Logger i holds a value json.Marshal rejects
Unserializable(i) == \E k \in DOMAIN FieldsOf(i) : FieldsOf(i)[k] = ChanValue
\* The FieldSet of Scoped Logger i holds an error the renderer panics on
Unrenderable(i) == \E k \in DOMAIN FieldsOf(i) : RenderField(FieldsOf(i)[k]).panic

\* The most recent call was an emission that passed the level gate
Passed == Emitted /\ ret.level <= RetBase.LogLevel

\* C15: an emission whose record cannot be serialized writes one fallback
\* line to the sink, "error marshaling log: <error>; <dump of the record>",
\* and returns normally; the logger stays usable: every emission whose fields
\* can be rendered and serialized, one that follows a fallback included,
\* writes a normal record.
C15_MarshalFailureFallsBack ==
    /\ \A i \in DOMAIN inner :
          (EmittedBy(i) /\ Passed /\ Unserializable(i) /\ ~Unrenderable(i)) =>
             /\ ret.outcome = "fallback"
             /\ Len(sink) = ret.before + 1
             /\ sink[Len(sink)].kind = "fallback"
             /\ \A k \in DOMAIN FieldsOf(i) \ RendererKeys(i) :
                   /\ k \in DOMAIN sink[Len(sink)].entry
                   /\ sink[Len(sink)].entry[k] = RenderField(FieldsOf(i)[k]).val
             /\ sink[Len(sink)].entry["message"] = Str(Sprintf(ret.msg[1], ret.msg[2]))
    /\ (Passed /\ (ret.on = "inner" =>
                     ~Unserializable(ret.id) /\ ~Unrenderable(ret.id))) =>
          /\ ret.outcome = "written"
          /\ Len(sink) = ret.before + 1
          /\ sink[Len(sink)].kind = "json"

\* A normal record written to the sink after a fallback line
C15_Witness ==
    /\ Wrote
    /\ \E n \in 1..(Len(sink) - 1) :
          sink[n].kind = "fallback" /\ sink[n].entry["userID"] = ChanValue

-----------------------------------------------------------------------------
(* C16 *)

\* The name of the level of each emission method
MethodLevelName(op) ==
    CASE op = "Error" -> "ERROR"
      [] op = "Warn" -> "WARN"
      [] op = "Log" -> "LOG"
      [] op = "Debug" -> "DEBUG"

\* The format with the arguments interpolated, for the messages of the callers
Interpolated(msg) ==
    CASE msg = <<"msg", << >> >> -> "msg"
      [] msg = <<"100%", << >> >> -> "100%"
      [] msg = <<"hello %s", <<"w">> >> -> "hello w"
      [] msg = <<"msg", <<"w">> >> -> "msg%!(EXTRA string=w)"

\* C16: whatever the emission method, the format and the arguments, the record
\* has level equal to the name of the method's level and message equal to the
\* format with the arguments interpolated, the format itself when there are
\* no arguments.
C16_LevelAndMessage ==
    Wrote =>
       /\ LastRecord["level"] = Str(MethodLevelName(ret.op))
       /\ LastRecord["message"] = Str(Interpolated(ret.msg))
       /\ ret.msg[2] = << >> => LastRecord["message"] = Str(ret.msg[1])

\* A record of Error on a Scoped Logger with an interpolated argument
C16_Witness ==
    /\ WroteBy(1)
    /\ ret.op = "Error" /\ ret.msg = <<"hello %s", <<"w">> >>
    /\ LastRecord["level"] = Str("ERROR")
    /\ LastRecord["message"] = Str("hello w")

-----------------------------------------------------------------------------
(* C17 *)

\* C17, as stated: every record an emission writes, on a Base Logger as well
\* as on a Scoped Logger, has the key caller with the path of the function
\* that called the emission method.
C17_RecordHasCaller ==
    Wrote =>
       /\ "caller" \in DOMAIN LastRecord
       /\ \E fn \in Callers : LastRecord["caller"] = ToJSON(CallerPtr(fn))

-----------------------------------------------------------------------------
(* C18, C19 *)

FacadeOps == {"Clone", "WithCtx", "With"} \cup EmitOps

\* Logger is nil: never assigned, assigned nil, or holding a nil pointer
HandleIsNil == Logger = NoLogger \/ Logger.ptr = 0

\* The step is a call of one of the package-level functions
FacadeCall == nops' = nops + 1 /\ ret'.op \in FacadeOps

\* C18: while Logger is nil, unassigned or holding a nil pointer, each of the
\* package-level functions Clone, WithCtx, With, Log, Error, Warn and Debug
\* panics with the initialization error before it delegates: no logger and no
\* MockInterface receives a call, and nothing is written to the sink.
C18_NilHandlePanics ==
    [][ (HandleIsNil /\ FacadeCall) =>
           /\ ret'.on = "facade"
           /\ ret'.outcome = "panic"
           /\ ret'.error = InitError
           /\ sink' = sink
           /\ mocks' = mocks
           /\ <<base, inner, maps, Logger>>' = <<base, inner, maps, Logger>> ]_vars

\* With panics on a nil pointer assigned after a record had been written
C18_Witness ==
    /\ Logger = MockPtr(0)
    /\ ret.op = "With" /\ ret.on = "facade" /\ ret.outcome = "panic"
    /\ ret.error = InitError
    /\ Len(sink) = 1

\* The call a package-level function makes when it is called with the
\* arguments args
Received(op, args) == [op |-> op, args |-> args]

\* The step delegates the call of op with args, once, to the value Logger
\* holds, and to nothing else
DelegatesTo(op, args, onLogger) ==
    IF Logger.t = "*logger.MockInterface"
    THEN /\ DOMAIN mocks' = DOMAIN mocks
         /\ mocks'[Logger.ptr].calls =
               Append(mocks[Logger.ptr].calls, Received(op, args))
         /\ \A n \in DOMAIN mocks \ {Logger.ptr} : mocks'[n] = mocks[n]
         /\ op \in {"Clone", "WithCtx", "With"} => ret'.result = Logger
         /\ <<base, inner, maps, sink>>' = <<base, inner, maps, sink>>
    ELSE /\ ret'.on = "base" /\ ret'.id = Logger.ptr /\ ret'.op = op
         /\ onLogger
         /\ mocks' = mocks

\* C19: whatever values Logger was assigned before, a call of a package-level
\* function delegates exactly once, with the same arguments, to the value
\* Logger holds at the call, and returns what that call returns for Clone,
\* WithCtx and With; the values assigned earlier receive no call, and the
\* call leaves Logger as it is.
C19_DelegatesToCurrentHandle ==
    [][ (~HandleIsNil /\ FacadeCall) =>
           /\ Logger' = Logger
           /\ Clone => DelegatesTo("Clone", << >>, BaseClone(Logger.ptr))
           /\ \A c \in FacadeContexts :
                 (ret'.op = "WithCtx" /\ WithCtx(c)) =>
                    DelegatesTo("WithCtx", <<c>>, BaseWithCtx(Logger.ptr, c))
           /\ \A a \in FacadeWithArgs :
                 (ret'.op = "With" /\ With(a[1], a[2])) =>
                    DelegatesTo("With", a, BaseWith(Logger.ptr, a[1], a[2]))
           /\ \A m \in FacadeMessages :
                 /\ (ret'.op = "Log" /\ Log(m[1], m[2])) =>
                       DelegatesTo("Log", m, BaseLog(Logger.ptr, "logger.Log", m))
                 /\ (ret'.op = "Error" /\ Error(m[1], m[2])) =>
                       DelegatesTo("Error", m, BaseError(Logger.ptr, "logger.Error", m))
                 /\ (ret'.op = "Warn" /\ Warn(m[1], m[2])) =>
                       DelegatesTo("Warn", m, BaseWarn(Logger.ptr, "logger.Warn", m))
                 /\ (ret'.op = "Debug" /\ Debug(m[1], m[2])) =>
                       DelegatesTo("Debug", m, BaseDebug(Logger.ptr, "logger.Debug", m)) ]_vars

\* The second MockInterface assigned has received the one call made, with its
\* arguments, and the first none
C19_Witness ==
    /\ Logger = MockPtr(2)
    /\ ret.op = "With" /\ ret.on = "facade" /\ ret.result = MockPtr(2)
    /\ mocks[1].calls = << >>
    /\ mocks[2].calls = << Received("With", <<"testField", Str("testValue")>>) >>

-----------------------------------------------------------------------------
(* C20 *)

\* C20: Clone of a Base Logger returns another Base Logger, with the same
\* App, Scope, UID, LogLevel, writer, expected context fields and parser.
\* Whatever Scoped Loggers are derived from the clone, or from the original,
\* and whatever fields they are given, a record of a Base Logger has no
\* FieldSet entry: its keys are the renderer's own.
C20_BaseCloneEqualAndApart ==
    /\ (ret.op = "Clone" /\ ret.on = "base") =>
          /\ ret.result # ret.id
          /\ ret.result \in DOMAIN base
          /\ \A f \in {"App", "Scope", "UID", "LogLevel", "writer",
                        "expectedCtxFields", "parser"} :
                base[ret.result][f] = base[ret.id][f]
    /\ (Wrote /\ ret.on = "base") =>
          DOMAIN LastRecord =
             FixedKeys \cup (IF base[ret.id].UID # "" THEN {"uid"} ELSE {})

\* A record of the original Base Logger, written after a Scoped Logger
\* derived from its clone was given a field
C20_Witness ==
    /\ Wrote /\ ret.on = "base" /\ ret.id = 1
    /\ \E i \in DOMAIN inner :
          /\ inner[i].logger = 2
          /\ "userID" \in DOMAIN FieldsOf(i)
    /\ "userID" \notin DOMAIN LastRecord

-----------------------------------------------------------------------------
(* C21 *)

\* C21, as stated: whatever With, WithCtx, Clone and emission calls are made
\* on a Base Logger and on the loggers derived from it, the App, Scope, UID
\* and LogLevel of the Base Logger stay what they were at construction (a
\* clone has those of its original), and every record of the Base Logger or
\* of a derived or cloned logger carries exactly those app, scope and uid.
C21_IdentityNeverChanges ==
    [][ /\ \A b \in DOMAIN base :
              /\ b \in DOMAIN base'
              /\ base'[b] = base[b]
              /\ base[b].App = base[1].App /\ base[b].Scope = base[1].Scope
              /\ base[b].UID = base[1].UID /\ base[b].LogLevel = base[1].LogLevel
        /\ Wrote' =>
              (/\ LastRecord["app"] = Str(base[1].App)
               /\ LastRecord["scope"] = Str(base[1].Scope)
               /\ IF base[1].UID = "" THEN "uid" \notin DOMAIN LastRecord
                  ELSE LastRecord["uid"] = Str(base[1].UID))' ]_vars

-----------------------------------------------------------------------------
(* C22 *)

\* Some call is in progress and no unit inside a call can take a step
Deadlocked ==
    /\ \E t \in Threads : pc[t] # "idle"
    /\ \A t \in Threads : ~ENABLED Advance(t)

-----------------------------------------------------------------------------
(* C23 *)

\* The minimum level the level-name lookup stands for
NamedLevel ==
    IF EnvLogLevel = "DEBUG" THEN DEBUG
    ELSE IF EnvLogLevel = "WARN" THEN WARN
    ELSE IF EnvLogLevel = "ERROR" THEN ERROR
    ELSE LOG

\* The process-wide logger has the minimum level named by the lookup, and
\* its emissions are written or suppressed by that level
LevelFollowsLookup ==
    /\ base[Logger.ptr].LogLevel = NamedLevel
    /\ Emitted => (Wrote <=> ret.level <= NamedLevel)

NoAppNameNorVersion == {"APP_NAME", "APP_VERSION"} \cap DOMAIN environ = {}
NoScope == "SCOPE" \notin DOMAIN environ

\* C23, as stated: the minimum level of the process-wide logger is DEBUG,
\* WARN or ERROR when the lookup gives that name and LOG for every other
\* value, and the Identity strings are empty when the application name,
\* version and scope are absent.
C23_LevelAndEmptyIdentity ==
    /\ LevelFollowsLookup
    /\ NoAppNameNorVersion =>
          base[Logger.ptr].App = "" /\ base[Logger.ptr].UID = ""
    /\ NoScope => base[Logger.ptr].Scope = ""

\* C23, amended: the minimum level is as stated; with the application name
\* and version absent the app and uid strings are "-" (the two empty lookups
\* joined by "-"), and with the scope absent or empty the scope is "-"; the
\* records show these strings.
C23_LevelAndDashIdentity ==
    /\ LevelFollowsLookup
    /\ NoAppNameNorVersion =>
          /\ base[Logger.ptr].App = "-" /\ base[Logger.ptr].UID = "-"
          /\ Wrote => LastRecord["app"] = Str("-") /\ LastRecord["uid"] = Str("-")
    /\ (NoScope \/ EnvScope = "") =>
          /\ base[Logger.ptr].Scope = "-"
          /\ Wrote => LastRecord["scope"] = Str("-")

\* Nothing is set in the environment and a record at the default level LOG
\* has been written
C23_Witness ==
    /\ environ = << >>
    /\ Wrote /\ ret.op = "Log"
    /\ LastRecord["level"] = Str("LOG")

-----------------------------------------------------------------------------
(* C24 *)

\* The step is a call of Create, resp. of NewFactory
Creates == nops' = nops + 1 /\ ret'.op = "Create"
MakesFactory == nops' = nops + 1 /\ ret'.op = "NewFactory"

\* The driver name asked for is a key of the mapping of the factory
Registered(driver) ==
    ~factory.createMap.nil /\ driver \in DOMAIN factory.createMap.m

\* The step constructs one more Base Logger, as parser's constructor does from
\* the configuration, and returns it
Constructed(configuration, parser) ==
    /\ ret'.outcome = "ok" /\ ret'.error = ""
    /\ ret'.result = LoggerPtr(Len(base) + 1)
    /\ Len(base') = Len(base) + 1
    /\ \A b \in DOMAIN base : base'[b] = base[b]
    /\ LET l == base'[Len(base')]
       IN  /\ l.App = configuration.App /\ l.Scope = configuration.Scope
           /\ l.UID = configuration.UID /\ l.LogLevel = configuration.LogLevel
           /\ l.parser = parser
           /\ l.expectedCtxFields = configuration.ExpectedCtxFields \o <<"TraceID">>
           /\ l.writer = IF configuration.Values.Writer = "nil" THEN "os.Stdout"
                         ELSE configuration.Values.Writer

\* C24: Create with a driver name that is not a key of the mapping returns an
\* error and no logger and calls no constructor; with a registered name it
\* calls that name's constructor and returns what it returns (a new logger
\* with the configured identity, or the constructor's error and no logger);
\* NewFactory with a nil mapping returns an error; the default mapping has
\* the JSON driver and the text driver.
C24_FactoryCreate ==
    [][ /\ DOMAIN DefaultFactoryConfiguration.Mapping.m
              = {JSONLoggerDriver, TextLoggerDriver}
        /\ MakesFactory =>
              (ret'.args[1].Mapping.nil => ret'.outcome = "error" /\ ret'.error # "")
        /\ Creates =>
              LET configuration == ret'.args[1]
              IN  IF ~Registered(configuration.Driver)
                  THEN /\ ret'.outcome = "error" /\ ret'.error # ""
                       /\ ret'.result = NoLogger
                       /\ ret'.called = "none"
                       /\ base' = base
                  ELSE /\ ret'.called = factory.createMap.m[configuration.Driver]
                       /\ IF configuration.Values = NoValues
                          THEN /\ ret'.outcome = "error"
                               /\ ret'.error = "from struct must not be nil"
                               /\ ret'.result = NoLogger
                               /\ base' = base
                          ELSE Constructed(configuration,
                                  IF ret'.called = "createJSONLogger"
                                  THEN "DefaultJSONParser" ELSE "DefaultTextParser") ]_vars

\* A factory made from the default mapping was asked for a driver it does not
\* have, after it had constructed a text logger
C24_Witness ==
    /\ ret.op = "Create" /\ ret.outcome = "error" /\ ret.called = "none"
    /\ factory.createMap = DefaultFactoryConfiguration.Mapping
    /\ \E b \in DOMAIN base : base[b].parser = "DefaultTextParser"

-----------------------------------------------------------------------------
(* C25 *)

\* C25, as stated: for one level, identity, message, context and FieldSet the
\* text renderer writes the same bytes whatever the iteration order of the
\* maps, also when a field is a map or a struct holding a map.
C25_TextIsDeterministic ==
    \A i \in DOMAIN sink, j \in DOMAIN sink : sink[i].entry = sink[j].entry

-----------------------------------------------------------------------------
(* C26 *)

\* C26, as stated: an emission that is not suppressed appends exactly one item
\* to the sink in one write call, a record followed by a line terminator,
\* whether it was serialized or fell back; so every item the sink holds is a
\* terminated line.
C26_OneTerminatedLinePerEmission ==
    /\ (Emitted /\ Passed) =>
          /\ Len(sink) = ret.before + 1
          /\ sink[Len(sink)].nl
    /\ \A n \in DOMAIN sink : sink[n].nl

-----------------------------------------------------------------------------
(* C27 *)

\* C27: an emission call on a Scoped Logger stores the field caller before
\* the level gate: after the call, suppressed or not, the FieldSet holds
\* caller with the caller resolved for this very call, in the place of any
\* field caller given by With, every other entry is as it was, and a
\* suppressed call leaves the sink as it was.
C27_CallerStoredBeforeGate ==
    [][ \A i \in DOMAIN inner :
          (nops' = nops + 1 /\ ret'.op \in EmitOps /\ ret'.on = "inner" /\ ret'.id = i) =>
             LET before == FieldsOf(i)
                 after == maps'[inner[i].fields]
             IN  /\ DOMAIN after = DOMAIN before \cup {"caller"}
                 /\ after["caller"] = CallerPtr(ret'.fn)
                 /\ \A k \in DOMAIN before \ {"caller"} : after[k] = before[k]
                 /\ base[inner[i].logger].LogLevel < ret'.level =>
                       ret'.outcome = "suppressed" /\ sink' = sink ]_vars

\* A suppressed call from main.worker has replaced the field caller that the
\* logger was given by With
C27_Witness ==
    /\ EmittedBy(1) /\ ret.outcome = "suppressed" /\ ret.fn = "main.worker"
    /\ "caller" \in DOMAIN hist[1].seed /\ hist[1].seed["caller"] = Str("mine")
    /\ FieldsOf(1)["caller"] = CallerPtr("main.worker")
    /\ sink = << >>

-----------------------------------------------------------------------------
(* C28 *)

\* The frame `up` levels above the function on top of stack; the empty path
\* when the stack has no such frame
FrameAbove(stack, up) ==
    IF up < Len(stack) THEN CallerPtr(stack[Len(stack) - up]) ELSE CallerPtr("")

\* C28: NewCaller(d) returns the path of the frame d-1 levels above the
\* function that called it (the empty path when the stack ends below that);
\* Self() names the function that called Self; the field caller a Scoped
\* Logger's emission stores and writes names the function that called the
\* emission method.
C28_CallerDepth ==
    /\ ret.op = "NewCaller" => ret.result = FrameAbove(ret.args[1], ret.args[2] - 1)
    /\ ret.op = "Self" => ret.result = FrameAbove(ret.args[1], 0)
    /\ EmittedBy(1) =>
          /\ FieldsOf(1)["caller"] = CallerPtr(ret.fn)
          /\ Wrote => LastRecord["caller"] = Object([Path |-> Str(ret.fn)])

\* NewCaller(3) was called two functions above main.main and named main.main,
\* after a record of main.worker had been written
C28_Witness ==
    /\ ret.op = "NewCaller" /\ ret.args[2] = 3 /\ Len(ret.args[1]) = 5
    /\ ret.result = CallerPtr("main.main")
    /\ sink # << >>
    /\ sink[Len(sink)].entry["caller"] = Object([Path |-> Str("main.worker")])

-----------------------------------------------------------------------------
(* C29 *)

\* C29, as stated: with several units emitting on one shared Scoped Logger
\* from different functions, the record a unit's emission has written has the
\* caller resolved for that very emission, in every interleaving.
C29_RecordHasOwnCaller ==
    \A t \in Threads :
       (pc[t] = "RUnlock" /\ cur[t].op \in EmitOps /\ cur[t].outcome = "written") =>
          sink[cur[t].line].entry["caller"] = Object([Path |-> Str(ThreadFn(t))])

-----------------------------------------------------------------------------
(* C30 *)

\* Unit t is inside the shared section of Clone, copying the FieldSet
Copying(t) == pc[t] = "read" /\ cur[t].op = "Clone"

\* C30: a Clone taken while other units call With is a snapshot of one single
\* point of its call: from the moment Clone holds the read lock until it has
\* made its copy no With changes the original's FieldSet, and the clone's
\* FieldSet is a new map equal to the original's FieldSet of that time.
C30_CloneIsASnapshot ==
    [][ \A t \in Threads :
          Copying(t) =>
             /\ maps'[1] = maps[1]
             /\ pc'[t] # "read" =>
                   /\ Len(maps') = Len(maps) + 1
                   /\ maps'[Len(maps')] = FieldsOf(1)
                   /\ inner'[Len(inner')].fields = Len(maps') ]_vars

\* A Clone has made its copy while a With of another unit, started before the
\* copy, waits for the lock: the clone has the earlier With's field and not
\* the waiting one's
C30_Witness ==
    \E t \in Threads, u \in Threads :
       /\ pc[t] = "RUnlock" /\ cur[t].op = "Clone"
       /\ pc[u] = "LockWait" /\ cur[u].op = "With" /\ cur[u].field = "uid"
       /\ DOMAIN maps[Len(maps)] = {"sharedField", "userID"}
       /\ maps[Len(maps)] = FieldsOf(1)

====
